---------------------------- MODULE Spec2Model ----------------------------
(***************************************************************************)
(* Orchestration pipeline of the InterChain Matchmaker Agent.              *)
(*                                                                         *)
(*   executeWorkflow   (src/unnamed/part_003)      sequential executor     *)
(*                     with retries and output-to-input piping             *)
(*   execute_workflow  (src/icma/src/tools/executeWorkflow.ts)  executor   *)
(*                     with a sequential and a parallel mode               *)
(*   discoverAgents    (src/icma/src/tools/discoverAgents.ts)  registry    *)
(*                     normalisation, pMap-bounded probing, dedup by id    *)
(*   probeAgents       (src/icma/src/index.ts)  capability probing of the  *)
(*                     Worker orchestrator                                 *)
(*   matchCapabilities, match_agents                                       *)
(*                     (src/icma/src/tools/matchCapabilities.ts)           *)
(*   POST /execute     (src/icma/src/index.ts)  discover, match,           *)
(*                     negotiate, execute                                  *)
(*   workflow loop     (src/icma/src/index.ts)  the Worker orchestrator's  *)
(*                     choose, negotiate, execute with retries, merge      *)
(*                                                                         *)
(*   negotiateAgents   (src/unnamed/part_001)  negotiation with retries    *)
(*   negotiate_terms   (src/unnamed/part_002)  per-step negotiation        *)
(*   onMessage         (src/icma/src/index.ts)  facade over discover,      *)
(*                     match, negotiate_terms, execute_workflow            *)
(*                                                                         *)
(* Each component has its own specification (SpecExec, SpecEW, SpecDisc,   *)
(* SpecWorker, SpecMatch, SpecOrch, SpecLoop, SpecNeg, SpecTerms,          *)
(* SpecMsg); the variables of the other components stay at their initial   *)
(* value. SpecOrch runs the POST /execute handler together with            *)
(* negotiateAgents and executeWorkflow, the functions it awaits; SpecMsg   *)
(* runs onMessage together with negotiate_terms and execute_workflow;      *)
(* SpecNegotiators is the choice of either negotiator.                     *)
(***************************************************************************)
EXTENDS Integers, Sequences, FiniteSets, TLC

(***************************************************************************)
(* Bounds of the model.                                                    *)
(***************************************************************************)
\* longest matches list handed to executeWorkflow
MaxSteps == 3
\* largest retryAttempts option handed to executeWorkflow
MaxRetry == 1
\* longest workflow handed to execute_workflow
MaxWf == 3
\* longest registry list the registry fetch yields
MaxAgents == 2
\* largest retryAttempts option handed to discoverAgents
MaxProbeRetry == 1
\* longest list of required steps handed to matchCapabilities
MaxMatchSteps == 2
\* calls of a matcher on one population
MaxRuns == 2

(***************************************************************************)
(* JSON values that travel through the pipeline.  A value is a record      *)
(*   kind   "undef" | "null" | "atom" | "obj"                              *)
(*   status the status field of an object ("absent" when it has none)      *)
(*   output the output field of an object: Nullish when the field is       *)
(*          absent or null (the ?? operator treats both alike), else the   *)
(*          name of the value it holds; for an atom, the atom's name       *)
(***************************************************************************)
Nullish == <<>>
Undefined == [kind |-> "undef", status |-> "absent", output |-> Nullish]
NullBody == [kind |-> "null", status |-> "absent", output |-> Nullish]
Atom(a) == [kind |-> "atom", status |-> "absent", output |-> a]
Obj(s, o) == [kind |-> "obj", status |-> s, output |-> o]

\* the value an agent of step i puts in its output field
OutputOf(i) == <<"w", i>>
\* the payload the caller hands in
InitialPayloads == {Atom(<<"w", 0>>)}
\* status tokens an agent may answer with
Statuses == {"DONE", "done", "FAILED"}
\* HTTP status codes of a received response; 0 stands for undefined
StatusCodes == {200, 500}
\* messages of the errors fetch rejects with (abort on timeout, network)
FetchErrors == {"aborted", "fetch failed"}

\* bodies the agent of step i can answer with (null: body is not JSON)
BodiesOf(i) ==
    {NullBody} \cup {Obj(s, o) : s \in Statuses, o \in {Nullish, OutputOf(i)}}

\* the steps and agents of the matches list: step i is run by agent i
StepName(i) == <<"step", i>>
AgentId(i) == <<"agent", i>>

(***************************************************************************)
(* executeWorkflow (src/unnamed/part_003): state                           *)
(***************************************************************************)
VARIABLES
    matches,        \* number of entries of the matches list
    retryAttempts,  \* options.retryAttempts
    initialPayload, \* the caller's payload
    xpc,            \* position in executeWorkflow
    step,           \* index of m in matches (the for..of cursor)
    attempt,        \* inner loop counter
    success, lastError, out, statusCode,  \* the step's locals
    payload,        \* body of the next request
    logs,           \* ExecutionLogEntry[]
    xresult,        \* what executeWorkflow returned ("none" before)
    calls,          \* per step: bodies of the /execute requests sent
    inflight,       \* /execute requests in flight: <<step, request no.>>
    waited,         \* a backoff delay elapsed since the last request
    lastBody        \* body of the step's last response (Undefined: none yet)

varsExec == <<matches, retryAttempts, initialPayload, xpc, step, attempt,
              success, lastError, out, statusCode, payload, logs, xresult,
              calls, inflight, waited, lastBody>>

(***************************************************************************)
(* execute_workflow (src/icma/src/tools/executeWorkflow.ts): state         *)
(***************************************************************************)
VARIABLES
    workflow,       \* number of steps of input.workflow
    parallel,       \* input.parallel
    wpc,            \* position in execute_workflow
    cursor,         \* index of step in workflow (sequential for..of)
    outputs,        \* ExecuteResult["outputs"]
    overallStatus,  \* the status returned ("none" before the return)
    wcalls,         \* per step: number of /execute requests sent
    winflight       \* steps whose callExecute is pending

varsEW == <<workflow, parallel, wpc, cursor, outputs, overallStatus, wcalls,
            winflight>>

(***************************************************************************)
(* discoverAgents (src/icma/src/tools/discoverAgents.ts): state            *)
(***************************************************************************)
VARIABLES
    regResponse,      \* what the registry fetch will yield
    probeEndpoints,   \* options.probeEndpoints
    probeConcurrency, \* options.probeConcurrency
    probeRetries,     \* options.retryAttempts
    dpc,              \* position in discoverAgents
    fallback,         \* the population: normalized registry or defaults
    current,          \* pMap's shared cursor
    probed,           \* pMap's out array (Empty: a slot never written)
    probe,            \* per item: state of its mapper call
    workers,          \* pMap workers that have not left their loop
    completions,      \* history: the mapper calls in the order they returned
    dresult           \* what discoverAgents returned or that it threw

varsDisc == <<regResponse, probeEndpoints, probeConcurrency, probeRetries,
              dpc, fallback, current, probed, probe, workers, completions,
              dresult>>

(***************************************************************************)
(* Worker orchestrator (src/icma/src/index.ts, fetch handler): state       *)
(***************************************************************************)
VARIABLES
    wkRegistry,       \* registry: the descriptors loadAgentRegistry returned
    wkpc,             \* position in the handler
    probePromises,    \* probeAgents: items whose promise is still pending
    probes,           \* probeAgents: the records pushed so far
    wkLogs,           \* logs, as <<message kind, item>>
    wkProbed          \* probed: what probeAgents returned

varsWorker == <<wkRegistry, wkpc, probePromises, probes, wkLogs, wkProbed>>

(***************************************************************************)
(* matchCapabilities and match_agents                                      *)
(* (src/icma/src/tools/matchCapabilities.ts): state                        *)
(***************************************************************************)
VARIABLES
    mFn,              \* the function under call
    mAgents,          \* agents: the caller's population array
    mSteps,           \* steps: the required capability names
    mOpts,            \* opts.preferAgentIds (given or not, and the ids)
    mGoal,            \* goal: the keywords the goal text contains
    mRuns,            \* history: what each call so far returned
    chosenAgentIds    \* match_agents: the set as the last call left it

varsMatch == <<mFn, mAgents, mSteps, mOpts, mGoal, mRuns, chosenAgentIds>>

(***************************************************************************)
(* Orchestrator POST /execute (src/icma/src/index.ts, second fetch         *)
(* handler): state                                                         *)
(***************************************************************************)
VARIABLES
    oBody,            \* the request body, by what the handler finds in it
    opc,              \* position in the handler
    oAgents,          \* agents: what discoverAgents returned
    oUrl,             \* whether the records of agents carry the url field
                      \* the stage functions read
    oMatches,         \* matches: what matchCapabilities returned
    negotiateResults, \* negotiateResults: agentId and accepted of each
    oInvoked,         \* history: the pipeline stages invoked so far
    oRequests,        \* history: the requests sent to agents
    oResponse         \* the response of the handler

varsOrch == <<oBody, opc, oAgents, oUrl, oMatches, negotiateResults, oInvoked,
              oRequests, oResponse>>

(***************************************************************************)
(* Worker orchestrator, workflow loop (src/icma/src/index.ts 121-228):     *)
(* state                                                                   *)
(***************************************************************************)
VARIABLES
    wlProbed,         \* probed: the population probeAgents returned
    capabilityMap,    \* capability -> the candidates array of that capability
    wlWorkflow,       \* workflow: the steps, each a capability with or
                      \* without an input of its own
    wlpc,             \* position in the handler
    wlStep,           \* index of the step the loop is at
    chosen,           \* the agent chooseAgent picked for the step
    negotiated,       \* the answer to the step's /negotiate request and the
                      \* boolean negotiateAgent returned for it
    wlAttempt,        \* executeAgentWithRetries: attempt
    executed,         \* what executeAgentWithRetries last returned, for
                      \* which step, answer and attempt
    finalOutput,      \* finalOutput: wallet, report, rawSteps
    agentsUsed,       \* agentsUsed
    wlRequests,       \* history: the requests sent to agents
    wlResponse        \* the response of the handler

varsLoop == <<wlProbed, capabilityMap, wlWorkflow, wlpc, wlStep, chosen,
              negotiated, wlAttempt, executed, finalOutput, agentsUsed,
              wlRequests, wlResponse>>

(***************************************************************************)
(* negotiateAgents (src/unnamed/part_001): state                           *)
(***************************************************************************)
VARIABLES
    nAgents,          \* agents: the input list
    nRetryAttempts,   \* options.retryAttempts
    npc,              \* position in the function
    nIdx,             \* index of the agent the for-of loop is at
    nAttempt,         \* attempt
    nAccepted,        \* accepted
    nLastError,       \* lastError
    nRespBody,        \* respBody
    nStatusCode,      \* statusCode
    nOut,             \* out
    nAnswers,         \* history: the answers the attempts of the agent the
                      \* loop is at have got, in order
    nContacted        \* history: the indexes of the agents sent a request

varsNeg == <<nAgents, nRetryAttempts, npc, nIdx, nAttempt, nAccepted,
             nLastError, nRespBody, nStatusCode, nOut, nAnswers, nContacted>>

(***************************************************************************)
(* negotiate_terms (src/unnamed/part_002): state                           *)
(***************************************************************************)
VARIABLES
    tWorkflow,        \* input.workflow: the steps, each with its agent
    tMaxRetries,      \* maxRetries
    tpc,              \* position in the function
    tIdx,             \* index of the step the for-of loop is at
    tAttempt,         \* postWithRetry: attempt
    tResponses,       \* responses
    tContacted,       \* history: the indexes of the steps whose agent was
                      \* sent a request
    tResult           \* the NegotiationResult returned

varsTerms == <<tWorkflow, tMaxRetries, tpc, tIdx, tAttempt, tResponses,
               tContacted, tResult>>

(***************************************************************************)
(* onMessage (src/icma/src/index.ts): state                                *)
(***************************************************************************)
VARIABLES
    fpc,              \* position of onMessage
    fPlan,            \* plan.workflow, what match_agents returned
    fInvoked,         \* the tools onMessage has called
    fReturn           \* what onMessage returned: negotiation and executeRes

varsMsg == <<fpc, fPlan, fInvoked, fReturn>>

vars == <<varsExec, varsEW, varsDisc, varsWorker, varsMatch, varsOrch, varsLoop, varsNeg, varsTerms, varsMsg>>

NoResult == [success |-> FALSE, kind |-> "none", agent |-> <<>>,
             step |-> <<>>, output |-> Undefined, logs |-> <<>>]

\* AgentInfo: capabilities and the keys of meta are kept as sets
AgentInfo(id, name, endpoint, capabilities, meta) ==
    [id |-> id, name |-> name, endpoint |-> endpoint,
     capabilities |-> capabilities, meta |-> meta]
\* a slot of pMap's out array that was never written (reads as undefined)
Empty == AgentInfo("", "", "", {}, {})
NoPopulation == [kind |-> "none", agents |-> <<>>]

(***************************************************************************)
(* A component that is not running: its variables at rest.                 *)
(***************************************************************************)
IdleExec ==
    /\ matches = 0
    /\ retryAttempts = 0
    /\ initialPayload = Undefined
    /\ xpc = "idle"
    /\ step = 1
    /\ attempt = 0
    /\ success = FALSE
    /\ lastError = ""
    /\ out = Undefined
    /\ statusCode = 0
    /\ payload = Undefined
    /\ logs = <<>>
    /\ xresult = NoResult
    /\ calls = <<>>
    /\ inflight = {}
    /\ waited = FALSE
    /\ lastBody = Undefined

IdleEW ==
    /\ workflow = 0
    /\ parallel = FALSE
    /\ wpc = "idle"
    /\ cursor = 1
    /\ outputs = <<>>
    /\ overallStatus = "none"
    /\ wcalls = <<>>
    /\ winflight = {}

IdleDisc ==
    /\ regResponse = NoPopulation
    /\ probeEndpoints = FALSE
    /\ probeConcurrency = 0
    /\ probeRetries = 0
    /\ dpc = "idle"
    /\ fallback = <<>>
    /\ current = 0
    /\ probed = <<>>
    /\ probe = <<>>
    /\ workers = 0
    /\ completions = <<>>
    /\ dresult = NoPopulation

IdleWorker ==
    /\ wkRegistry = <<>>
    /\ wkpc = "idle"
    /\ probePromises = {}
    /\ probes = <<>>
    /\ wkLogs = <<>>
    /\ wkProbed = NoPopulation

IdleMatch ==
    /\ mFn = "idle"
    /\ mAgents = <<>>
    /\ mSteps = <<>>
    /\ mOpts = [given |-> FALSE, preferAgentIds |-> <<>>]
    /\ mGoal = {}
    /\ mRuns = <<>>
    /\ chosenAgentIds = {}

\* a response of the handler: kind ("none" before it, "json", "threw" when
\* the handler rejects), the HTTP status code, the fields of the JSON body,
\* and what the body says: the status, the steps or agent ids the message
\* names, the wallet, report and logs fields
NoResponse ==
    [kind |-> "none", status |-> "", code |-> 0, fields |-> {},
     missing |-> <<>>, refused |-> <<>>, failed |-> <<>>,
     wallet |-> Undefined, report |-> Undefined, logs |-> <<>>]

IdleOrch ==
    /\ oBody = "none"
    /\ opc = "idle"
    /\ oAgents = <<>>
    /\ oUrl = FALSE
    /\ oMatches = <<>>
    /\ negotiateResults = <<>>
    /\ oInvoked = {}
    /\ oRequests = <<>>
    /\ oResponse = NoResponse

\* the capability names of the model
Capabilities == {"wallet_scan", "generate_report", "mint"}

\* const finalOutput: any = {}
EmptyOutput == [wallet |-> Undefined, report |-> Undefined, rawSteps |-> <<>>]

NoWlResponse == [kind |-> "none", status |-> "", code |-> 0, error |-> <<>>,
                 output |-> EmptyOutput, agentsUsed |-> <<>>]

NoAgentProbe == [id |-> "", name |-> "", endpoint |-> "", capabilities |-> {}]

\* a body of an agent's answer to /negotiate: the accept field (a boolean
\* or absent) and the status field (a token or absent)
NegotiateBody(kind, accept, status) ==
    [kind |-> kind, accept |-> accept, status |-> status]

\* an answer to /negotiate: the fetch settles with a status code and a
\* body, or rejects (network error, timeout)
NegotiateAnswer(fetch, code, body) ==
    [fetch |-> fetch, code |-> code, body |-> body]

NoNegotiateBody == NegotiateBody("none", "absent", "absent")

NotNegotiated ==
    [answer |-> NegotiateAnswer("pending", 0, NoNegotiateBody),
     result |-> FALSE]

\* an answer to /execute: the fetch settles with a status code and the
\* text of a body, or rejects (network error, timeout)
ExecuteAnswer(fetch, code, body) ==
    [fetch |-> fetch, code |-> code, body |-> body]

\* the text of a body that is not JSON
TextBody == [kind |-> "text", status |-> "absent", output |-> Nullish]

NotExecuted ==
    [step |-> 0, attempt |-> 0, answer |-> ExecuteAnswer("pending", 0, Undefined),
     result |-> Undefined]

IdleLoop ==
    /\ wlProbed = <<>>
    /\ capabilityMap = [c \in Capabilities |-> <<>>]
    /\ wlWorkflow = <<>>
    /\ wlpc = "idle"
    /\ wlStep = 1
    /\ chosen = NoAgentProbe
    /\ negotiated = NotNegotiated
    /\ wlAttempt = 0
    /\ executed = NotExecuted
    /\ finalOutput = EmptyOutput
    /\ agentsUsed = <<>>
    /\ wlRequests = <<>>
    /\ wlResponse = NoWlResponse

\* a body of an answer to negotiateAgents' request: the JSON value null, a
\* text that is not JSON, or an object with or without the fields status,
\* accepted and accept
NegBody(kind, status, accepted, accept) ==
    [kind |-> kind, status |-> status, accepted |-> accepted, accept |-> accept]

\* let respBody: any = undefined
NoRespBody == NegBody("undefined", "absent", "absent", "absent")

IdleNeg ==
    /\ nAgents = <<>>
    /\ nRetryAttempts = 0
    /\ npc = "idle"
    /\ nIdx = 0
    /\ nAttempt = 0
    /\ nAccepted = FALSE
    /\ nLastError = ""
    /\ nRespBody = NoRespBody
    /\ nStatusCode = 0
    /\ nOut = <<>>
    /\ nAnswers = <<>>
    /\ nContacted = {}

NoNegotiation == [status |-> "none", responses |-> <<>>]

IdleTerms ==
    /\ tWorkflow = <<>>
    /\ tMaxRetries = 0
    /\ tpc = "idle"
    /\ tIdx = 0
    /\ tAttempt = 0
    /\ tResponses = <<>>
    /\ tContacted = {}
    /\ tResult = NoNegotiation

NoReturn == [message |-> "none", negotiation |-> "none", executeRes |-> "none"]

IdleMsg ==
    /\ fpc = "idle"
    /\ fPlan = <<>>
    /\ fInvoked = {}
    /\ fReturn = NoReturn

OthersIdleExec ==
    UNCHANGED <<varsEW, varsDisc, varsWorker, varsMatch, varsOrch, varsLoop, varsNeg, varsTerms, varsMsg>>
OthersIdleEW ==
    UNCHANGED <<varsExec, varsDisc, varsWorker, varsMatch, varsOrch, varsLoop, varsNeg, varsTerms, varsMsg>>
OthersIdleDisc ==
    UNCHANGED <<varsExec, varsEW, varsWorker, varsMatch, varsOrch, varsLoop, varsNeg, varsTerms, varsMsg>>
OthersIdleWorker ==
    UNCHANGED <<varsExec, varsEW, varsDisc, varsMatch, varsOrch, varsLoop, varsNeg, varsTerms, varsMsg>>
OthersIdleMatch ==
    UNCHANGED <<varsExec, varsEW, varsDisc, varsWorker, varsOrch, varsLoop, varsNeg, varsTerms, varsMsg>>
OthersIdleOrch ==
    UNCHANGED <<varsExec, varsEW, varsDisc, varsWorker, varsMatch, varsLoop, varsNeg, varsTerms, varsMsg>>
OthersIdleLoop ==
    UNCHANGED <<varsExec, varsEW, varsDisc, varsWorker, varsMatch, varsOrch, varsNeg, varsTerms, varsMsg>>
OthersIdleNeg ==
    UNCHANGED <<varsExec, varsEW, varsDisc, varsWorker, varsMatch, varsOrch, varsLoop, varsTerms, varsMsg>>
OthersIdleTerms ==
    UNCHANGED <<varsExec, varsEW, varsDisc, varsWorker, varsMatch, varsOrch, varsLoop, varsNeg, varsMsg>>
OthersIdleMsg ==
    UNCHANGED <<varsExec, varsEW, varsDisc, varsWorker, varsMatch, varsOrch, varsLoop, varsNeg, varsTerms>>

(***************************************************************************)
(* executeWorkflow                                                         *)
(***************************************************************************)
InitExec ==
    /\ IdleEW
    /\ IdleDisc
    /\ IdleWorker
    /\ IdleMatch
    /\ IdleOrch
    /\ IdleLoop
    /\ IdleNeg
    /\ IdleTerms
    /\ IdleMsg
    /\ matches \in 0..MaxSteps
    /\ retryAttempts \in -1..MaxRetry
    /\ initialPayload \in InitialPayloads
    /\ xpc = "for"
    /\ step = 1
    /\ attempt = 0
    /\ success = FALSE
    /\ lastError = ""
    /\ out = Undefined
    /\ statusCode = 0
    /\ payload = initialPayload
    /\ logs = <<>>
    /\ xresult = NoResult
    /\ calls = [i \in 1..MaxSteps |-> <<>>]
    /\ inflight = {}
    /\ waited = FALSE
    /\ lastBody = Undefined

\* faulty variant: any JSON object is taken as an accepted response
AcceptedAnyObject(jsonBody) == jsonBody.kind = "obj"

\* jsonBody && jsonBody.status === "DONE"
Accepted(jsonBody) == jsonBody.kind = "obj" /\ jsonBody.status = "DONE"

\* faulty variant: the whole body is piped on, the output field is not taken out
OutputOrBodyWhole(jsonBody) == jsonBody

\* jsonBody.output ?? jsonBody
OutputOrBody(jsonBody) ==
    IF jsonBody.output = Nullish THEN jsonBody ELSE Atom(jsonBody.output)

\* the entry pushed for the current step
LogEntry ==
    [step |-> StepName(step), agentId |-> AgentId(step), success |-> success,
     statusCode |-> statusCode,
     error |-> IF success THEN "undefined" ELSE lastError,
     output |-> out]

\* for (const m of matches): the next m, with its locals reset
StartStep ==
    /\ xpc = "for"
    /\ step <= matches
    /\ success' = FALSE
    /\ lastError' = ""
    /\ out' = Undefined
    /\ statusCode' = 0
    /\ lastBody' = Undefined
    /\ attempt' = 0
    /\ xpc' = "attempt"
    /\ UNCHANGED <<matches, retryAttempts, initialPayload, step, payload,
                   logs, xresult, calls, inflight, waited>>
    /\ OthersIdleExec

\* the loop is over: return { success: true, finalOutput: payload, logs }
ReturnSuccess ==
    /\ xpc = "for"
    /\ step > matches
    /\ xresult' = [success |-> TRUE, kind |-> "final", agent |-> <<>>,
                   step |-> <<>>, output |-> payload, logs |-> logs]
    /\ xpc' = "done"
    /\ UNCHANGED <<matches, retryAttempts, initialPayload, step, attempt,
                   success, lastError, out, statusCode, lastBody, payload,
                   logs,                   calls, inflight, waited>>
    /\ OthersIdleExec

\* faulty variant: the inner loop runs once too often
MoreAttemptsOffByOne == attempt <= retryAttempts + 1

\* the inner loop's condition: attempt <= options.retryAttempts
MoreAttempts == attempt <= retryAttempts

\* faulty variant: the request is sent and not awaited, the loop goes on
SendExecuteNoAwait ==
    /\ xpc = "attempt"
    /\ MoreAttempts
    /\ calls' = [calls EXCEPT ![step] = Append(@, payload)]
    /\ inflight' = inflight \cup {<<step, Len(calls[step]) + 1>>}
    /\ waited' = FALSE
    /\ attempt' = attempt + 1
    /\ UNCHANGED <<matches, retryAttempts, initialPayload, step, xpc,
                   success, lastError, out, statusCode, lastBody, payload,
                   logs, xresult>>
    /\ OthersIdleExec

\* attempt <= retryAttempts: POST payload to the agent's /execute
SendExecute ==
    /\ xpc = "attempt"
    /\ MoreAttempts
    /\ calls' = [calls EXCEPT ![step] = Append(@, payload)]
    /\ inflight' = inflight \cup {<<step, Len(calls[step]) + 1>>}
    /\ waited' = FALSE
    /\ xpc' = "await"
    /\ UNCHANGED <<matches, retryAttempts, initialPayload, step, attempt,
                   success, lastError, out, statusCode, lastBody, payload,
                   logs,                   xresult>>
    /\ OthersIdleExec

\* faulty variant: the end of the inner loop pushes a log entry of its own
AttemptsExhaustedPush ==
    /\ xpc = "attempt"
    /\ ~MoreAttempts
    /\ logs' = Append(logs, LogEntry)
    /\ xpc' = "push"
    /\ UNCHANGED <<matches, retryAttempts, initialPayload, step, attempt,
                   success, lastError, out, statusCode, lastBody, payload,
                   xresult, calls, inflight, waited>>
    /\ OthersIdleExec

\* attempt > retryAttempts: the inner loop ends without a break
AttemptsExhausted ==
    /\ xpc = "attempt"
    /\ ~MoreAttempts
    /\ xpc' = "push"
    /\ UNCHANGED <<matches, retryAttempts, initialPayload, step, attempt,
                   success, lastError, out, statusCode, lastBody, payload,
                   logs,                   xresult, calls, inflight, waited>>
    /\ OthersIdleExec

\* a response arrives: status code and body (null when it is not JSON)
ReceiveResponse ==
    /\ xpc = "await"
    /\ \E code \in StatusCodes, jsonBody \in BodiesOf(step) :
         /\ statusCode' = code
         /\ lastBody' = jsonBody
         /\ IF Accepted(jsonBody)
            THEN /\ success' = TRUE
                 /\ out' = OutputOrBody(jsonBody)
                 /\ xpc' = "push"
                 /\ UNCHANGED <<lastError, attempt>>
            ELSE /\ lastError' = "unexpected-response"
                 /\ out' = jsonBody
                 /\ attempt' = attempt + 1
                 /\ xpc' = "attempt"
                 /\ UNCHANGED success
    /\ inflight' = inflight \ {<<step, Len(calls[step])>>}
    /\ UNCHANGED <<matches, retryAttempts, initialPayload, step, payload,
                   logs, xresult, calls, waited>>
    /\ OthersIdleExec

\* fetch rejects (timeout abort or network error): the catch branch
FetchThrows ==
    /\ xpc = "await"
    /\ \E err \in FetchErrors : lastError' = err
    /\ inflight' = inflight \ {<<step, Len(calls[step])>>}
    /\ IF attempt < retryAttempts
       THEN xpc' = "backoff" /\ UNCHANGED attempt
       ELSE xpc' = "attempt" /\ attempt' = attempt + 1
    /\ UNCHANGED <<matches, retryAttempts, initialPayload, step, success,
                   out, statusCode, lastBody, payload, logs, xresult, calls,
                   waited>>
    /\ OthersIdleExec

\* the backoff timer of the catch branch fires
BackoffElapsed ==
    /\ xpc = "backoff"
    /\ waited' = TRUE
    /\ attempt' = attempt + 1
    /\ xpc' = "attempt"
    /\ UNCHANGED <<matches, retryAttempts, initialPayload, step, success,
                   lastError, out, statusCode, lastBody, payload, logs,
                   xresult, calls,
                   inflight>>
    /\ OthersIdleExec

\* faulty variant: a failed step does not abort the workflow
PushLogNoAbort ==
    /\ xpc = "push"
    /\ logs' = Append(logs, LogEntry)
    /\ payload' = out
    /\ step' = step + 1
    /\ xpc' = "for"
    /\ UNCHANGED <<matches, retryAttempts, initialPayload, attempt, success,
                   lastError, out, statusCode, lastBody, calls, inflight,
                   waited, xresult>>
    /\ OthersIdleExec

\* logs.push(...); then abort on failure, else payload = out and next m
PushLog ==
    /\ xpc = "push"
    /\ logs' = Append(logs, LogEntry)
    /\ IF ~success
       THEN /\ xresult' = [success |-> FALSE, kind |-> "failed",
                           agent |-> AgentId(step), step |-> StepName(step),
                           output |-> out, logs |-> logs']
            /\ xpc' = "done"
            /\ UNCHANGED <<payload, step>>
       ELSE /\ payload' = out
            /\ step' = step + 1
            /\ xpc' = "for"
            /\ UNCHANGED xresult
    /\ UNCHANGED <<matches, retryAttempts, initialPayload, attempt, success,
                   lastError, out, statusCode, lastBody, calls, inflight,
                   waited>>
    /\ OthersIdleExec

NextExec ==
    \/ StartStep
    \/ ReturnSuccess
    \/ SendExecute
    \/ AttemptsExhausted
    \/ ReceiveResponse
    \/ FetchThrows
    \/ BackoffElapsed
    \/ PushLog

SpecExec == InitExec /\ [][NextExec]_vars

(***************************************************************************)
(* execute_workflow                                                        *)
(***************************************************************************)
\* status tokens an agent may answer callExecute with ("": none or falsy);
\* they are strings, as the type of ExecuteResult["outputs"] declares
WStatuses == {"DONE", "done", "FAILED", ""}

\* res.data of the agent of step i (NullBody: no data)
DataOf(i) ==
    {NullBody} \cup {Obj(s, o) : s \in WStatuses, o \in {Nullish, OutputOf(i)}}

\* String.prototype.toUpperCase on the status tokens
ToUpperCase(s) ==
    CASE s = "done" -> "DONE"
      [] s = "failed" -> "FAILED"
      [] s = "error" -> "ERROR"
      [] s = "accept" -> "ACCEPT"
      [] s = "reject" -> "REJECT"
      [] OTHER -> s

\* data?.status || "UNKNOWN"
StatusOf(data) ==
    IF data.kind = "obj" /\ data.status # "" THEN data.status ELSE "UNKNOWN"

\* the entry pushed when callExecute resolves with data
ResolvedEntry(i, data) ==
    [agentId |-> AgentId(i), stepId |-> i, status |-> StatusOf(data),
     output |-> IF data.kind = "obj" THEN data.output ELSE Nullish,
     error |-> ""]

\* the entry pushed by the catch branch
RejectedEntry(i, err) ==
    [agentId |-> AgentId(i), stepId |-> i, status |-> "ERROR",
     output |-> Nullish, error |-> err]

\* outputs.filter(o => o.status && o.status.toUpperCase() === "DONE").length
SuccessCount(outs) ==
    Cardinality({k \in 1..Len(outs) :
                   outs[k].status # "" /\ ToUpperCase(outs[k].status) = "DONE"})

\* outputs.filter(... === "ERROR" || ... === "FAILED").length
FailedCount(outs) ==
    Cardinality({k \in 1..Len(outs) :
                   /\ outs[k].status # ""
                   /\ ToUpperCase(outs[k].status) \in {"ERROR", "FAILED"}})

\* faulty variant: the status is derived from failedCount
OverallStatusByFailed(outs) ==
    IF FailedCount(outs) = 0 THEN "OK"
    ELSE IF SuccessCount(outs) > 0 THEN "PARTIAL" ELSE "FAILED"

\* successCount === outputs.length ? "OK" : successCount > 0 ? "PARTIAL" : "FAILED"
OverallStatus(outs) ==
    IF SuccessCount(outs) = Len(outs) THEN "OK"
    ELSE IF SuccessCount(outs) > 0 THEN "PARTIAL" ELSE "FAILED"

InitEW ==
    /\ IdleExec
    /\ IdleDisc
    /\ IdleWorker
    /\ IdleMatch
    /\ IdleOrch
    /\ IdleLoop
    /\ IdleNeg
    /\ IdleTerms
    /\ IdleMsg
    /\ workflow \in 0..MaxWf
    /\ parallel \in BOOLEAN
    /\ wpc = IF parallel THEN "entry" ELSE "loop"
    /\ cursor = 1
    /\ outputs = <<>>
    /\ overallStatus = "none"
    /\ wcalls = [i \in 1..MaxWf |-> 0]
    /\ winflight = {}

\* parallel: workflow.map starts every callExecute before any is awaited
StartParallel ==
    /\ wpc = "entry"
    /\ parallel
    /\ wcalls' = [i \in 1..MaxWf |-> IF i <= workflow THEN 1 ELSE 0]
    /\ winflight' = 1..workflow
    /\ wpc' = "gather"
    /\ UNCHANGED <<workflow, parallel, cursor, outputs, overallStatus>>
    /\ OthersIdleEW

\* parallel: a call resolves, its entry is pushed in completion order
ParResolved ==
    /\ wpc = "gather"
    /\ \E i \in winflight : \E data \in DataOf(i) :
         /\ outputs' = Append(outputs, ResolvedEntry(i, data))
         /\ winflight' = winflight \ {i}
    /\ UNCHANGED <<workflow, parallel, wpc, cursor, overallStatus, wcalls>>
    /\ OthersIdleEW

\* faulty variant: a rejected call is not caught, Promise.all rejects at once
ParRejectedUncaught ==
    /\ wpc = "gather"
    /\ \E i \in winflight : winflight' = winflight \ {i}
    /\ overallStatus' = "threw"
    /\ wpc' = "done"
    /\ UNCHANGED <<workflow, parallel, cursor, outputs, wcalls>>
    /\ OthersIdleEW

\* parallel: a call rejects (timeout, network, non-2xx): the catch branch
ParRejected ==
    /\ wpc = "gather"
    /\ \E i \in winflight, err \in FetchErrors :
         /\ outputs' = Append(outputs, RejectedEntry(i, err))
         /\ winflight' = winflight \ {i}
    /\ UNCHANGED <<workflow, parallel, wpc, cursor, overallStatus, wcalls>>
    /\ OthersIdleEW

\* parallel: Promise.all resolves, the status is computed and returned
ParAllSettled ==
    /\ wpc = "gather"
    /\ winflight = {}
    /\ overallStatus' = OverallStatus(outputs)
    /\ wpc' = "done"
    /\ UNCHANGED <<workflow, parallel, cursor, outputs, wcalls, winflight>>
    /\ OthersIdleEW

\* sequential: for (const step of workflow) calls the step's /execute
SeqCall ==
    /\ wpc = "loop"
    /\ ~parallel
    /\ cursor <= workflow
    /\ wcalls' = [wcalls EXCEPT ![cursor] = @ + 1]
    /\ winflight' = {cursor}
    /\ wpc' = "await"
    /\ UNCHANGED <<workflow, parallel, cursor, outputs, overallStatus>>
    /\ OthersIdleEW

\* sequential: the call resolves; the entry is pushed and the loop goes on
SeqResolved ==
    /\ wpc = "await"
    /\ \E data \in DataOf(cursor) :
         outputs' = Append(outputs, ResolvedEntry(cursor, data))
    /\ winflight' = {}
    /\ cursor' = cursor + 1
    /\ wpc' = "loop"
    /\ UNCHANGED <<workflow, parallel, overallStatus, wcalls>>
    /\ OthersIdleEW

\* sequential: the call rejects; the entry is pushed, the loop is left
\* (break) and the status is computed and returned
SeqRejected ==
    /\ wpc = "await"
    /\ \E err \in FetchErrors :
         outputs' = Append(outputs, RejectedEntry(cursor, err))
    /\ winflight' = {}
    /\ overallStatus' = OverallStatus(outputs')
    /\ wpc' = "done"
    /\ UNCHANGED <<workflow, parallel, cursor, wcalls>>
    /\ OthersIdleEW

\* sequential: the loop is over, the status is computed and returned
SeqReturn ==
    /\ wpc = "loop"
    /\ ~parallel
    /\ cursor > workflow
    /\ overallStatus' = OverallStatus(outputs)
    /\ wpc' = "done"
    /\ UNCHANGED <<workflow, parallel, cursor, outputs, wcalls, winflight>>
    /\ OthersIdleEW

NextEW ==
    \/ StartParallel
    \/ ParResolved
    \/ ParRejected
    \/ ParAllSettled
    \/ SeqCall
    \/ SeqResolved
    \/ SeqRejected
    \/ SeqReturn

SpecEW == InitEW /\ [][NextEW]_vars

(***************************************************************************)
(* discoverAgents                                                          *)
(***************************************************************************)
\* an entry of the registry JSON; "" stands for a missing or falsy field,
\* present = FALSE for a null entry
RawEntry(id, name, endpoint, url, capsIsArray, capabilities, meta) ==
    [present |-> TRUE, id |-> id, name |-> name, endpoint |-> endpoint,
     url |-> url, capsIsArray |-> capsIsArray,
     capabilities |-> capabilities, meta |-> meta]

RawEntries ==
    { RawEntry("a1", "A1", "e1", "", TRUE, {"scan"}, {"k1"}),
      RawEntry("a2", "", "", "u2", FALSE, {}, {}),
      RawEntry("a1", "", "e3", "u3", TRUE, {}, {}),
      RawEntry("", "A4", "e4", "", TRUE, {"scan"}, {}),
      RawEntry("a3", "A3", "", "", TRUE, {"report"}, {}),
      RawEntry("a3", "A3", " ", "u6", TRUE, {"report"}, {}),
      [RawEntry("", "", "", "", FALSE, {}, {}) EXCEPT !.present = FALSE] }

\* the lists of at most n raw entries
RECURSIVE RawLists(_)
RawLists(n) ==
    IF n = 0 THEN {<<>>}
    ELSE LET shorter == RawLists(n - 1)
         IN shorter \cup {Append(l, e) : l \in shorter, e \in RawEntries}

\* what the fetch of registryUrl can yield
RegistryResponses ==
    {[kind |-> k, agents |-> <<>>] : k \in {"throws", "notok", "notarray"}}
        \cup {[kind |-> "list", agents |-> l] : l \in RawLists(MaxAgents)}

\* loadRegistry, then if (!registry) registry = []
LoadRegistry(response) ==
    IF response.kind = "list" THEN response.agents ELSE <<>>

\* String.prototype.trim on the addresses of the model
Trim(str) == IF str = " " THEN "" ELSE str

\* .filter(a => a && a.id && (a.url || a.endpoint))
Usable(a) == a.present /\ a.id # "" /\ (a.url # "" \/ a.endpoint # "")

\* .map(a => ({ id, name, endpoint, capabilities, meta }))
NormalizeEntry(a) ==
    AgentInfo(a.id,
              IF a.name # "" THEN a.name ELSE a.id,
              Trim(IF a.endpoint # "" THEN a.endpoint ELSE a.url),
              IF a.capsIsArray THEN a.capabilities ELSE {},
              a.meta)

RECURSIVE Normalized(_)
Normalized(registry) ==
    IF registry = <<>> THEN <<>>
    ELSE IF Usable(Head(registry))
         THEN <<NormalizeEntry(Head(registry))>> \o Normalized(Tail(registry))
         ELSE Normalized(Tail(registry))

\* the built-in population
DefaultAgents ==
    << AgentInfo("wallet-agent", "WalletAnalysisAgent", "wallet-cap.json", {}, {}),
       AgentInfo("report-agent", "ReportGenerationAgent", "report-cap.json", {}, {}) >>

\* faulty variant: no default population
FallbackNone(normalized) == normalized

\* normalized.length === 0 ? [defaults] : normalized
Fallback(normalized) ==
    IF Len(normalized) = 0 THEN DefaultAgents ELSE normalized

\* the JSON a capability query can answer with: null, an object without a
\* capabilities list, objects with one (with and without name and meta)
NoData == [kind |-> "null", name |-> "", capsIsArray |-> FALSE,
           capabilities |-> {}, meta |-> {}]
ProbeData ==
    { NoData,
      [kind |-> "obj", name |-> "", capsIsArray |-> FALSE,
       capabilities |-> {}, meta |-> {}],
      [kind |-> "obj", name |-> "", capsIsArray |-> TRUE,
       capabilities |-> {"scan", "report"}, meta |-> {}],
      [kind |-> "obj", name |-> "Probed", capsIsArray |-> TRUE,
       capabilities |-> {}, meta |-> {"k2"}] }

\* faulty variant: any JSON object replaces the capability set
MappedAnyObject(agent, data) ==
    IF data.kind = "obj"
    THEN AgentInfo(agent.id,
                   IF data.name # "" THEN data.name ELSE agent.name,
                   agent.endpoint,
                   data.capabilities,
                   agent.meta \cup data.meta)
    ELSE agent

\* the mapper's result for agent and the data probeCapabilities returned
Mapped(agent, data) ==
    IF data.kind = "obj" /\ data.capsIsArray
    THEN AgentInfo(agent.id,
                   IF data.name # "" THEN data.name ELSE agent.name,
                   agent.endpoint,
                   data.capabilities,
                   agent.meta \cup data.meta)
    ELSE agent

\* faulty variant: the first entry of an id is kept
RECURSIVE DedupKeepFirst(_)
DedupKeepFirst(list) ==
    IF list = <<>> THEN <<>>
    ELSE LET n == Len(list)
             front == DedupKeepFirst(SubSeq(list, 1, n - 1))
         IN IF \E k \in 1..Len(front) : front[k].id = list[n].id
            THEN front
            ELSE Append(front, list[n])

\* const map = new Map(); for (const a of probed) map.set(a.id, a);
\* [...map.values()]: ids in the order of their first entry, each with
\* the last entry of that id
RECURSIVE Dedup(_)
Dedup(list) ==
    IF list = <<>> THEN <<>>
    ELSE LET n == Len(list)
             last == list[n]
             front == Dedup(SubSeq(list, 1, n - 1))
         IN IF \E k \in 1..Len(front) : front[k].id = last.id
            THEN [k \in 1..Len(front) |->
                     IF front[k].id = last.id THEN last ELSE front[k]]
            ELSE Append(front, last)

\* probes (capability queries) in flight
ProbesInFlight == {i \in 1..Len(probe) : probe[i].pc = "fetch"}

InitDisc ==
    /\ IdleExec
    /\ IdleEW
    /\ IdleWorker
    /\ IdleMatch
    /\ IdleOrch
    /\ IdleLoop
    /\ IdleNeg
    /\ IdleTerms
    /\ IdleMsg
    /\ regResponse \in RegistryResponses
    /\ probeEndpoints \in BOOLEAN
    /\ probeConcurrency \in 0..(MaxAgents + 1)
    /\ probeRetries \in 0..MaxProbeRetry
    /\ dpc = "load"
    /\ fallback = <<>>
    /\ current = 0
    /\ probed = <<>>
    /\ probe = <<>>
    /\ workers = 0
    /\ completions = <<>>
    /\ dresult = NoPopulation

\* the registry fetch settles: normalize, fall back to the defaults, and
\* return at once when probeEndpoints is off
RegistryLoaded ==
    /\ dpc = "load"
    /\ fallback' = Fallback(Normalized(LoadRegistry(regResponse)))
    /\ regResponse' = NoPopulation
    /\ IF ~probeEndpoints
       THEN /\ dresult' = [kind |-> "returned", agents |-> fallback']
            /\ dpc' = "done"
       ELSE /\ dpc' = "pmap"
            /\ UNCHANGED dresult
    /\ UNCHANGED <<probeEndpoints, probeConcurrency, probeRetries, current,
                   probed, probe, workers, completions>>
    /\ OthersIdleDisc

\* faulty variant: one worker per item whatever the concurrency
WorkerCountPerItem(concurrency, n) == n

\* Math.min(concurrency, items.length), the length of the workers array
WorkerCount(concurrency, n) ==
    LET m == IF concurrency < n THEN concurrency ELSE n
    IN IF m < 0 THEN 0 ELSE m

\* pMap: out = new Array(items.length); every worker takes its first index
\* and sends its first capability query before any of them is awaited
PMapStart ==
    /\ dpc = "pmap"
    /\ LET n == Len(fallback)
           w == WorkerCount(probeConcurrency, n)
       IN /\ probed' = [i \in 1..n |-> Empty]
          /\ probe' = [i \in 1..n |->
                          IF i <= w THEN [pc |-> "fetch", attempt |-> 0]
                          ELSE [pc |-> "pending", attempt |-> 0]]
          /\ current' = w
          /\ workers' = w
    /\ dpc' = "probing"
    /\ UNCHANGED <<regResponse, probeEndpoints, probeConcurrency,
                   probeRetries, fallback, completions, dresult>>
    /\ OthersIdleDisc

\* the mapper of item i returns for data, which probeCapabilities got from
\* an OK response (answered) or gave up with: out[i] is written, and the
\* worker takes the next index (current++) and probes it, or leaves its loop
MapperReturns(i, data, answered) ==
    /\ probed' = [probed EXCEPT ![i] = Mapped(fallback[i], data)]
    /\ completions' = Append(completions,
                             [item |-> i, answered |-> answered, data |-> data])
    /\ current' = current + 1
    /\ IF current >= Len(fallback)
       THEN /\ workers' = workers - 1
            /\ probe' = [probe EXCEPT ![i] = [pc |-> "settled", attempt |-> 0]]
       ELSE /\ workers' = workers
            /\ probe' = [probe EXCEPT
                            ![i] = [pc |-> "settled", attempt |-> 0],
                            ![current + 1] = [pc |-> "fetch", attempt |-> 0]]

\* a capability query is answered with a non-OK status: attempt++ and,
\* while attempt <= retries, the next query at once
ProbeNotOk ==
    /\ dpc = "probing"
    /\ \E i \in ProbesInFlight :
         IF probe[i].attempt + 1 <= probeRetries
         THEN /\ probe' = [probe EXCEPT ![i].attempt = @ + 1]
              /\ UNCHANGED <<probed, current, workers, completions>>
         ELSE MapperReturns(i, NoData, FALSE)
    /\ UNCHANGED <<regResponse, probeEndpoints, probeConcurrency,
                   probeRetries, dpc, fallback, dresult>>
    /\ OthersIdleDisc

\* a capability query is answered OK with a JSON body
ProbeAnswered ==
    /\ dpc = "probing"
    /\ \E i \in ProbesInFlight : \E data \in ProbeData :
         MapperReturns(i, data, TRUE)
    /\ UNCHANGED <<regResponse, probeEndpoints, probeConcurrency,
                   probeRetries, dpc, fallback, dresult>>
    /\ OthersIdleDisc

\* fetch rejects or the body is not JSON: attempt++ and, while
\* attempt <= retries, a jitter delay before the next query
ProbeThrows ==
    /\ dpc = "probing"
    /\ \E i \in ProbesInFlight :
         IF probe[i].attempt + 1 <= probeRetries
         THEN /\ probe' = [probe EXCEPT
                             ![i] = [pc |-> "backoff", attempt |-> @.attempt + 1]]
              /\ UNCHANGED <<probed, current, workers, completions>>
         ELSE MapperReturns(i, NoData, FALSE)
    /\ UNCHANGED <<regResponse, probeEndpoints, probeConcurrency,
                   probeRetries, dpc, fallback, dresult>>
    /\ OthersIdleDisc

\* the jitter delay is over: the next capability query is sent
ProbeBackoffElapsed ==
    /\ dpc = "probing"
    /\ \E i \in 1..Len(probe) :
         /\ probe[i].pc = "backoff"
         /\ probe' = [probe EXCEPT ![i].pc = "fetch"]
    /\ UNCHANGED <<regResponse, probeEndpoints, probeConcurrency,
                   probeRetries, dpc, fallback, current, probed, workers,
                   completions, dresult>>
    /\ OthersIdleDisc

\* every worker has left its loop: pMap resolves with out, and the
\* population is deduplicated by id; reading a.id of a slot that was
\* never written throws a TypeError
PMapResolved ==
    /\ dpc = "probing"
    /\ workers = 0
    /\ dresult' = IF \E i \in 1..Len(probed) : probed[i] = Empty
                  THEN [kind |-> "threw", agents |-> <<>>]
                  ELSE [kind |-> "returned", agents |-> Dedup(probed)]
    /\ dpc' = "done"
    /\ UNCHANGED <<regResponse, probeEndpoints, probeConcurrency,
                   probeRetries, fallback, current, probed, probe, workers,
                   completions>>
    /\ OthersIdleDisc

NextDisc ==
    \/ RegistryLoaded
    \/ PMapStart
    \/ ProbeNotOk
    \/ ProbeAnswered
    \/ ProbeThrows
    \/ ProbeBackoffElapsed
    \/ PMapResolved

SpecDisc == InitDisc /\ [][NextDisc]_vars

(***************************************************************************)
(* Worker orchestrator: probeAgents                                        *)
(***************************************************************************)
\* descriptors of the registry: { id, name, endpoint }
WkDescriptors ==
    { [id |-> "w1", name |-> "Wallet Worker", endpoint |-> "https://w1"],
      [id |-> "r1", name |-> "Reporter", endpoint |-> "http://r1"],
      [id |-> "", name |-> "", endpoint |-> "https://x1"] }

\* the registries of at most n descriptors
RECURSIVE WkRegistries(_)
WkRegistries(n) ==
    IF n = 0 THEN {<<>>}
    ELSE LET shorter == WkRegistries(n - 1)
         IN shorter \cup {Append(l, d) : l \in shorter, d \in WkDescriptors}

\* the capability lists an OK answer to /capabilities yields: the list of
\* the body, or [] for a body without one or one that is not JSON
WkCapabilityLists == { {"wallet_scan"}, {"generate_report"}, {} }

\* { ...agent, capabilities: caps }
AgentProbe(agent, caps) ==
    [id |-> agent.id, name |-> agent.name, endpoint |-> agent.endpoint,
     capabilities |-> caps]

InitWorker ==
    /\ IdleExec
    /\ IdleEW
    /\ IdleDisc
    /\ IdleMatch
    /\ IdleOrch
    /\ IdleLoop
    /\ IdleNeg
    /\ IdleTerms
    /\ IdleMsg
    /\ wkRegistry \in WkRegistries(MaxAgents)
    /\ wkpc = "probe"
    /\ probePromises = {}
    /\ probes = <<>>
    /\ wkLogs = <<>>
    /\ wkProbed = NoPopulation

\* registry.map(async (agent) => ...): every query is sent at once
ProbeAgentsStart ==
    /\ wkpc = "probe"
    /\ wkpc' = "probing"
    /\ probePromises' = 1..Len(wkRegistry)
    /\ UNCHANGED <<wkRegistry, probes, wkLogs, wkProbed>>
    /\ OthersIdleWorker

\* if (!res.ok) { log(...); return; }
PaNotOk ==
    /\ wkpc = "probing"
    /\ \E i \in probePromises :
         /\ probePromises' = probePromises \ {i}
         /\ wkLogs' = Append(wkLogs, <<"Probe failed", i>>)
    /\ UNCHANGED <<wkRegistry, wkpc, probes, wkProbed>>
    /\ OthersIdleWorker

\* an OK answer: probes.push({ ...agent, capabilities: caps })
PaAnswered ==
    /\ wkpc = "probing"
    /\ \E i \in probePromises : \E caps \in WkCapabilityLists :
         /\ probePromises' = probePromises \ {i}
         /\ probes' = Append(probes, AgentProbe(wkRegistry[i], caps))
         /\ wkLogs' = Append(wkLogs, <<"Probed", i>>)
    /\ UNCHANGED <<wkRegistry, wkpc, wkProbed>>
    /\ OthersIdleWorker

\* the fetch rejects or times out, or the body is null: catch (e) { log }
PaThrows ==
    /\ wkpc = "probing"
    /\ \E i \in probePromises :
         /\ probePromises' = probePromises \ {i}
         /\ wkLogs' = Append(wkLogs, <<"Probe error", i>>)
    /\ UNCHANGED <<wkRegistry, wkpc, probes, wkProbed>>
    /\ OthersIdleWorker

\* await Promise.all(probePromises); return probes;
PaAllSettled ==
    /\ wkpc = "probing"
    /\ probePromises = {}
    /\ wkProbed' = [kind |-> "returned", agents |-> probes]
    /\ wkpc' = "done"
    /\ UNCHANGED <<wkRegistry, probePromises, probes, wkLogs>>
    /\ OthersIdleWorker

NextWorker ==
    \/ ProbeAgentsStart
    \/ PaNotOk
    \/ PaAnswered
    \/ PaThrows
    \/ PaAllSettled

SpecWorker == InitWorker /\ [][NextWorker]_vars

(***************************************************************************)
(* matchCapabilities                                                       *)
(***************************************************************************)
\* the agents of a probed population
MatchAgentPool ==
    { AgentInfo(id, id, "e", caps, {}) :
        id \in {"a", "b"},
        caps \in { {}, {"wallet_scan"}, {"generate_report"},
                   {"wallet_scan_v2", "balance_data", "generate_report"} } }

\* the populations of at most n agents
RECURSIVE Populations(_)
Populations(n) ==
    IF n = 0 THEN {<<>>}
    ELSE LET shorter == Populations(n - 1)
         IN shorter \cup {Append(l, a) : l \in shorter, a \in MatchAgentPool}

\* the step lists of at most n capability names
RECURSIVE StepLists(_)
StepLists(n) ==
    IF n = 0 THEN {<<>>}
    ELSE LET shorter == StepLists(n - 1)
         IN shorter \cup {Append(l, s) : l \in shorter,
                            s \in {"wallet_scan", "generate_report", "mint"}}

\* opts: none, or a preferAgentIds list
MatchOptions ==
    {[given |-> FALSE, preferAgentIds |-> <<>>]}
        \cup {[given |-> TRUE, preferAgentIds |-> l] :
                 l \in {<<>>, <<"b">>, <<"c", "b">>, <<"b", "a">>}}

\* let candidate: AgentInfo | undefined
NoCandidate == AgentInfo("", "", "", {}, {})

\* Array.prototype.find: the first element that passes the test, hits
\* being the positions of the elements that pass it
Find(list, hits) ==
    IF hits # {}
    THEN list[CHOOSE i \in hits : \A j \in hits : i <= j]
    ELSE NoCandidate

\* x => x.id === pref && x.capabilities.includes(step)
PreferredHits(agents, pref, stepName) ==
    {i \in 1..Len(agents) :
        agents[i].id = pref /\ stepName \in agents[i].capabilities}

\* faulty variant: the capability test is left out
CapableHitsAny(agents, stepName) == 1..Len(agents)

\* a => Array.isArray(a.capabilities) && a.capabilities.includes(step)
CapableHits(agents, stepName) ==
    {i \in 1..Len(agents) : stepName \in agents[i].capabilities}

\* for (const pref of options.preferAgentIds) { find ...; if (a) break }
RECURSIVE PreferredCandidate(_, _, _)
PreferredCandidate(agents, stepName, prefs) ==
    IF prefs = <<>> THEN NoCandidate
    ELSE LET a == Find(agents, PreferredHits(agents, Head(prefs), stepName))
         IN IF a # NoCandidate THEN a
            ELSE PreferredCandidate(agents, stepName, Tail(prefs))

\* faulty variant: the preference list is ignored
CandidateFirstFit(agents, stepName, opts) ==
    Find(agents, CapableHits(agents, stepName))

\* the candidate of one step
Candidate(agents, stepName, opts) ==
    LET preferred == IF opts.given
                     THEN PreferredCandidate(agents, stepName,
                                             opts.preferAgentIds)
                     ELSE NoCandidate
    IN IF preferred # NoCandidate THEN preferred
       ELSE Find(agents, CapableHits(agents, stepName))

\* matchCapabilities(agents, steps, opts)
RECURSIVE MatchCapabilities(_, _, _)
MatchCapabilities(agents, steps, opts) ==
    IF steps = <<>> THEN <<>>
    ELSE LET candidate == Candidate(agents, Head(steps), opts)
             rest == MatchCapabilities(agents, Tail(steps), opts)
         IN IF candidate # NoCandidate
            THEN <<[step |-> Head(steps), agent |-> candidate]>> \o rest
            ELSE rest

(***************************************************************************)
(* match_agents                                                            *)
(***************************************************************************)
\* the keywords a goal text is searched for, by requirement
GoalWords == {"wallet", "pdf", "upload"}

\* requirements, in the order the goal is tested for them
AllRequirements ==
    << [role |-> "data_extractor", words |-> {"wallet", "balance", "transaction"},
        capabilityKeywords |-> {"wallet_scan", "balance_data", "tx_history"}],
       [role |-> "report_generator", words |-> {"report", "generate report", "pdf"},
        capabilityKeywords |-> {"generate_report", "process_data", "pdf_export"}],
       [role |-> "uploader", words |-> {"ipfs", "publish", "upload"},
        capabilityKeywords |-> {"ipfs_upload", "storage_upload"}] >>

\* if (lower.includes(...)) requirements.push(...)
Requirements(goal) ==
    SelectSeq(AllRequirements, LAMBDA r : goal \cap r.words # {})

\* String.prototype.includes on the capability names of the model
Includes(cap, kw) ==
    cap = kw \/ (cap = "wallet_scan_v2" /\ kw = "wallet_scan")

\* agent.capabilities.reduce(...): +1 for each capability that includes a
\* keyword of the requirement
Score(agent, req) ==
    Cardinality({cap \in agent.capabilities :
                    \E kw \in req.capabilityKeywords : Includes(cap, kw)})

\* Array.prototype.sort((a, b) => key(b) - key(a)): descending and stable;
\* key[i] is the sort key of list[i]
SortDesc(list, key) ==
    LET Rank(i) ==
            1 + Cardinality({j \in 1..Len(list) : key[j] > key[i]})
              + Cardinality({j \in 1..(i - 1) : key[j] = key[i]})
    IN [p \in 1..Len(list) |->
           list[CHOOSE i \in 1..Len(list) : Rank(i) = p]]

\* Math.min(0.95, 0.5 + score * 0.15), in hundredths
Confidence(score) ==
    IF 50 + score * 15 > 95 THEN 95 ELSE 50 + score * 15

\* requirements.length === 0: the top 2 agents by number of capabilities
FallbackPlan(agents) ==
    LET sorted == SortDesc(agents, [i \in 1..Len(agents) |->
                                       Cardinality(agents[i].capabilities)])
        top == SubSeq(sorted, 1, IF Len(sorted) < 2 THEN Len(sorted) ELSE 2)
    IN [workflow |-> [i \in 1..Len(top) |->
                         [stepId |-> i,
                          role |-> IF i = 1 THEN "primary" ELSE "secondary",
                          agent |-> top[i],
                          confidence |-> IF i = 1 THEN 80 ELSE 70]],
        reasons |-> <<<<"fallback: highest-capability agents">>>>]

\* faulty variant: the set of chosen ids outlives the call
ChosenKept(previous) == previous

\* const chosenAgentIds = new Set<string>()
ChosenAtStart(previous) == {}

\* faulty variant: agents already chosen stay eligible
NotChosenAll(sorted, ids) == 1..Len(sorted)

\* !chosenAgentIds.has(s.agent.id): the positions still eligible
NotChosen(sorted, ids) ==
    {k \in 1..Len(sorted) : sorted[k].agent.id \notin ids}

\* faulty variant: the last element that passes the test
FoundLast(hits) ==
    IF hits # {} THEN CHOOSE k \in hits : \A j \in hits : k >= j ELSE 0

\* sorted.find(...): the first element that passes the test, 0 for none
Found(hits) ==
    IF hits # {} THEN CHOOSE k \in hits : \A j \in hits : k <= j ELSE 0

\* one pass of for (const req of requirements)
PlanStep(agents, req, acc) ==
    LET scored == [i \in 1..Len(agents) |->
                      [agent |-> agents[i], score |-> Score(agents[i], req)]]
        sorted == SortDesc(scored, [i \in 1..Len(scored) |-> scored[i].score])
        free == NotChosen(sorted, acc.chosen)
        good == {k \in free : sorted[k].score > 0}
        pick == IF good # {} THEN Found(good) ELSE Found(free)
    IN IF pick = 0
       THEN [acc EXCEPT !.reasons = Append(@, <<"No agents available", req.role>>)]
       ELSE [workflow |-> Append(acc.workflow,
                [stepId |-> Len(acc.workflow) + 1,
                 role |-> req.role,
                 agent |-> sorted[pick].agent,
                 confidence |-> IF good # {}
                                THEN Confidence(sorted[pick].score) ELSE 35]),
             chosen |-> acc.chosen \cup {sorted[pick].agent.id},
             reasons |-> Append(acc.reasons,
                IF good # {}
                THEN <<"satisfied", req.role, sorted[pick].agent.id>>
                ELSE <<"fallback", req.role, sorted[pick].agent.id>>)]

RECURSIVE PlanLoop(_, _, _)
PlanLoop(agents, reqs, acc) ==
    IF reqs = <<>> THEN acc
    ELSE PlanLoop(agents, Tail(reqs), PlanStep(agents, Head(reqs), acc))

\* match_agents({ goal, agents }): the plan, and chosenAgentIds at its end
MatchAgents(goal, agents, previous) ==
    IF Requirements(goal) = <<>>
    THEN [workflow |-> FallbackPlan(agents).workflow,
          chosen |-> previous,
          reasons |-> FallbackPlan(agents).reasons]
    ELSE PlanLoop(agents, Requirements(goal),
                  [workflow |-> <<>>, chosen |-> ChosenAtStart(previous),
                   reasons |-> <<>>])

(***************************************************************************)
(* Calls of the matchers on one population                                 *)
(***************************************************************************)
InitMatch ==
    /\ IdleExec
    /\ IdleEW
    /\ IdleDisc
    /\ IdleWorker
    /\ IdleOrch
    /\ IdleLoop
    /\ IdleNeg
    /\ IdleTerms
    /\ IdleMsg
    /\ mAgents \in Populations(MaxAgents)
    /\ \/ /\ mFn = "matchCapabilities"
          /\ mSteps \in StepLists(MaxMatchSteps)
          /\ mOpts \in MatchOptions
          /\ mGoal = {}
       \/ /\ mFn = "match_agents"
          /\ mSteps = <<>>
          /\ mOpts = [given |-> FALSE, preferAgentIds |-> <<>>]
          /\ mGoal \in SUBSET GoalWords
    /\ mRuns = <<>>
    /\ chosenAgentIds = {}

\* a call of matchCapabilities returns
CallMatchCapabilities ==
    /\ mFn = "matchCapabilities"
    /\ Len(mRuns) < MaxRuns
    /\ mRuns' = Append(mRuns,
                       [matches |-> MatchCapabilities(mAgents, mSteps, mOpts),
                        workflow |-> <<>>, reasons |-> <<>>])
    /\ UNCHANGED <<mFn, mAgents, mSteps, mOpts, mGoal, chosenAgentIds>>
    /\ OthersIdleMatch

\* a call of match_agents returns
CallMatchAgents ==
    /\ mFn = "match_agents"
    /\ Len(mRuns) < MaxRuns
    /\ LET plan == MatchAgents(mGoal, mAgents, chosenAgentIds)
       IN /\ mRuns' = Append(mRuns,
                             [matches |-> <<>>, workflow |-> plan.workflow,
                              reasons |-> plan.reasons])
          /\ chosenAgentIds' = plan.chosen
    /\ UNCHANGED <<mFn, mAgents, mSteps, mOpts, mGoal>>
    /\ OthersIdleMatch

NextMatch ==
    \/ CallMatchCapabilities
    \/ CallMatchAgents

SpecMatch == InitMatch /\ [][NextMatch]_vars

(***************************************************************************)
(* Orchestrator POST /execute                                              *)
(***************************************************************************)
\* const WORKFLOW_STEPS = ["wallet_scan", "generate_report"]
WORKFLOW_STEPS == <<"wallet_scan", "generate_report">>

\* request bodies: not JSON, without address and wallet, with one that is
\* no Ethereum address, with a valid address, with a valid wallet
RequestBodies ==
    {"invalid json", "no address", "bad address", "address", "wallet"}

\* error(message, code) = json({ status: "ERROR", message }, code)
ErrorResponse(code, missing) ==
    [NoResponse EXCEPT !.kind = "json", !.status = "ERROR", !.code = code,
                       !.fields = {"status", "message"}, !.missing = missing]

\* what discoverAgents can return with probing on and a concurrency of 4:
\* a non-empty population with pairwise distinct ids
DiscoveredPopulations ==
    {p \in Populations(MaxAgents) :
        /\ Len(p) > 0
        /\ \A i, j \in 1..Len(p) : p[i].id = p[j].id => i = j}

\* faulty variant: no step is ever reported missing
MissingNone(found) == <<>>

\* WORKFLOW_STEPS.filter(step => !matches.some(m => m.step === step))
Missing(found) ==
    SelectSeq(WORKFLOW_STEPS,
              LAMBDA s : ~\E k \in 1..Len(found) : found[k].step = s)

InitOrch ==
    /\ IdleExec
    /\ IdleEW
    /\ IdleDisc
    /\ IdleWorker
    /\ IdleMatch
    /\ IdleLoop
    /\ IdleNeg
    /\ IdleTerms
    /\ IdleMsg
    /\ oBody \in RequestBodies
    /\ opc = "parse"
    /\ oAgents = <<>>
    /\ oUrl = FALSE
    /\ oMatches = <<>>
    /\ negotiateResults = <<>>
    /\ oInvoked = {}
    /\ oRequests = <<>>
    /\ oResponse = NoResponse

\* the body is parsed and the address validated
ParseBody ==
    /\ opc = "parse"
    /\ IF oBody \in {"invalid json", "no address", "bad address"}
       THEN /\ oResponse' = ErrorResponse(400, <<>>)
            /\ opc' = "done"
       ELSE /\ opc' = "discover"
            /\ UNCHANGED oResponse
    /\ UNCHANGED <<oBody, oAgents, oUrl, oMatches, negotiateResults, oInvoked,
                   oRequests>>
    /\ OthersIdleOrch

\* await discoverAgents({ probeEndpoints: true, probeConcurrency: 4, ... }):
\* every agent of the population was sent capability queries. The records
\* discoverAgents of src/icma/src/tools builds have an endpoint and no url;
\* the handler (line 562), negotiateAgents and executeWorkflow read
\* agent.url, the field of the records they were written for. Both shapes
\* of record are covered
DiscoverAgentsReturns ==
    /\ opc = "discover"
    /\ oUrl' \in BOOLEAN
    /\ \E p \in DiscoveredPopulations :
         /\ oAgents' = p
         /\ oRequests' = [i \in 1..Len(p) |->
                             [path |-> "/capabilities", agentId |-> p[i].id]]
    /\ oInvoked' = oInvoked \cup {"discoverAgents"}
    /\ opc' = "match"
    /\ UNCHANGED <<oBody, oMatches, negotiateResults, oResponse>>
    /\ OthersIdleOrch

\* matchCapabilities(agents, WORKFLOW_STEPS), then the test for missing
\* steps
MatchAndCheck ==
    /\ opc = "match"
    /\ oMatches' = MatchCapabilities(oAgents, WORKFLOW_STEPS,
                                     [given |-> FALSE, preferAgentIds |-> <<>>])
    /\ oInvoked' = oInvoked \cup {"matchCapabilities"}
    /\ IF Len(Missing(oMatches')) > 0
       THEN /\ oResponse' = ErrorResponse(500, Missing(oMatches'))
            /\ opc' = "done"
       ELSE /\ opc' = "negotiate"
            /\ UNCHANGED oResponse
    /\ UNCHANGED <<oBody, oAgents, oUrl, negotiateResults, oRequests>>
    /\ OthersIdleOrch

\* negotiateAgents(matches.map(m => m.agent), ...) for agents that have
\* an endpoint but no url: agent.url.replace throws a TypeError for the
\* first agent, before any request, and the handler rejects
NegotiateAgentsThrows ==
    /\ opc = "negotiate"
    /\ ~oUrl
    /\ oInvoked' = oInvoked \cup {"negotiateAgents"}
    /\ oResponse' = [NoResponse EXCEPT !.kind = "threw"]
    /\ opc' = "done"
    /\ UNCHANGED <<oBody, oAgents, oUrl, oMatches, negotiateResults, oRequests>>
    /\ OthersIdleOrch

(***************************************************************************)
(* Worker orchestrator: workflow loop                                      *)
(***************************************************************************)
\* const maxAttempts = 3 (executeAgentWithRetries)
maxAttempts == 3

\* the records probeAgents can return for the descriptors of the registry
ProbedPool ==
    {AgentProbe(d, caps) : d \in WkDescriptors,
                           caps \in {{"wallet_scan"}, {"generate_report"}}}

\* the populations of at most n probed agents
RECURSIVE ProbedPopulations(_)
ProbedPopulations(n) ==
    IF n = 0 THEN {<<>>}
    ELSE LET shorter == ProbedPopulations(n - 1)
         IN shorter \cup {Append(l, a) : l \in shorter, a \in ProbedPool}

\* a step of the workflow: its capability, and whether it has an input
WorkflowStep(capability, hasInput) ==
    [capability |-> capability, hasInput |-> hasInput]

\* the default workflow (body.workflow missing or empty): wallet_scan with
\* the request's input, then generate_report
DefaultWorkflow ==
    <<WorkflowStep("wallet_scan", TRUE), WorkflowStep("generate_report", FALSE)>>

\* the workflows of the model: the default one and lists a request gives
Workflows ==
    { DefaultWorkflow,
      <<WorkflowStep("mint", FALSE)>>,
      <<WorkflowStep("wallet_scan", TRUE), WorkflowStep("mint", FALSE)>>,
      <<WorkflowStep("generate_report", FALSE), WorkflowStep("wallet_scan", FALSE)>>,
      <<WorkflowStep("wallet_scan", FALSE), WorkflowStep("wallet_scan", TRUE)>> }

\* for (const p of probed) for (const c of p.capabilities) arr.push(p)
BuildCapabilityMap(population) ==
    [c \in Capabilities |->
        SelectSeq(population, LAMBDA p : c \in p.capabilities)]

\* scoreAgent, for an env without ORCHESTRATOR_DOMAIN
scoreAgent(a) ==
    (IF a.name = "Wallet Worker" THEN 10 ELSE 0)
        + (IF a.endpoint \in {"https://w1", "https://x1"} THEN 2 ELSE 0)

\* candidates.sort((a, b) => scoreAgent(b) - scoreAgent(a))
SortedCandidates(candidates) ==
    SortDesc(candidates, [i \in 1..Len(candidates) |-> scoreAgent(candidates[i])])

\* what an agent's /negotiate can answer with: the fetch rejects or times
\* out; a non-OK status (404, 405, 500); an OK status with a body that has
\* a boolean accept field, a status token only, neither, a body that is not
\* JSON, the JSON value null
NegotiateAnswers ==
    { NegotiateAnswer("rejects", 0, NoNegotiateBody) }
    \cup { NegotiateAnswer("settles", code, NoNegotiateBody) :
             code \in {404, 405, 500} }
    \cup { NegotiateAnswer("settles", 200, body) :
             body \in { NegotiateBody("obj", "true", "absent"),
                        NegotiateBody("obj", "false", "ACCEPT"),
                        NegotiateBody("obj", "absent", "ACCEPT"),
                        NegotiateBody("obj", "absent", "REJECT"),
                        NegotiateBody("obj", "absent", "absent"),
                        NegotiateBody("not json", "absent", "absent"),
                        NegotiateBody("null", "absent", "absent") } }

\* res.json().catch(() => ({})): a body that does not parse reads as {}
NegotiateJson(body) ==
    IF body.kind = "not json" THEN NegotiateBody("obj", "absent", "absent")
    ELSE body

\* negotiateAgent: the boolean it returns for an answer. A rejected fetch
\* lands in the catch, and so does the read of body.accept on a null body
negotiateAgent(answer) ==
    IF answer.fetch = "rejects" THEN TRUE
    ELSE IF answer.code # 200 THEN answer.code \in {404, 405}
    ELSE LET body == NegotiateJson(answer.body)
         IN IF body.kind = "null" THEN TRUE
            ELSE IF body.accept \in {"true", "false"}
                 THEN body.accept = "true"
            ELSE IF body.status \in {"ACCEPT", "OK", "accepted"} THEN TRUE
            ELSE TRUE

\* respondError(err, logs)
respondError(err) ==
    [kind |-> "json", status |-> "FAILED", code |-> 500, error |-> err,
     output |-> EmptyOutput, agentsUsed |-> <<>>]

\* the bodies an agent's /execute answers an OK status with, for step i:
\* JSON objects with and without status and output, the JSON value null,
\* and text that is not JSON
ExecuteData(i) ==
    { Obj("DONE", <<"out", i>>), Obj("DONE", Nullish),
      Obj("FAILED", <<"out", i>>), Obj("absent", Nullish), NullBody,
      TextBody }

\* try { return JSON.parse(text) } catch { return { status: "DONE",
\* output: text } }
ParsedOrDone(body) ==
    IF body = TextBody THEN Obj("DONE", <<"raw text">>) ELSE body

\* execResponse.output || execResponse
OutputOrResponse(execResponse) ==
    IF execResponse.output # Nullish THEN Atom(execResponse.output)
    ELSE execResponse

\* switch (step.capability): where the output of a step goes
Merged(output, capability, execResponse) ==
    CASE capability = "wallet_scan" ->
            [output EXCEPT !.wallet = OutputOrResponse(execResponse)]
      [] capability = "generate_report" ->
            [output EXCEPT !.report = OutputOrResponse(execResponse)]
      [] OTHER ->
            [output EXCEPT !.rawSteps =
                Append(@, [capability |-> capability,
                           output |-> OutputOrResponse(execResponse)])]

InitLoop ==
    /\ IdleExec
    /\ IdleEW
    /\ IdleDisc
    /\ IdleWorker
    /\ IdleMatch
    /\ IdleOrch
    /\ IdleNeg
    /\ IdleTerms
    /\ IdleMsg
    /\ wlProbed \in ProbedPopulations(MaxAgents)
    /\ capabilityMap = BuildCapabilityMap(wlProbed)
    /\ wlWorkflow \in Workflows
    /\ wlpc = "loop"
    /\ wlStep = 1
    /\ chosen = NoAgentProbe
    /\ negotiated = NotNegotiated
    /\ wlAttempt = 0
    /\ executed = NotExecuted
    /\ finalOutput = EmptyOutput
    /\ agentsUsed = <<>>
    /\ wlRequests = <<>>
    /\ wlResponse = NoWlResponse

\* a request to the chosen agent, as the history keeps it
Request(path, agent, k) == [path |-> path, endpoint |-> agent.endpoint, step |-> k]

\* the handler answers with respondError(err, logs)
Fails(err) ==
    /\ wlResponse' = respondError(err)
    /\ wlpc' = "done"

\* the loop comes to step k with the output merged so far: past the last
\* step the handler answers DONE; a step without candidates fails the
\* request; else chooseAgent sorts the candidates array, its first entry is
\* chosen and sent the /negotiate request
EnterStep(k, output) ==
    /\ wlStep' = k
    /\ finalOutput' = output
    /\ wlAttempt' = 0
    /\ IF k > Len(wlWorkflow)
       THEN /\ wlResponse' = [kind |-> "json", status |-> "DONE", code |-> 200,
                              error |-> <<>>, output |-> output,
                              agentsUsed |-> agentsUsed]
            /\ wlpc' = "done"
            /\ UNCHANGED <<capabilityMap, chosen, negotiated, agentsUsed,
                           wlRequests>>
       ELSE LET capability == wlWorkflow[k].capability
                candidates == capabilityMap[capability]
                sorted == SortedCandidates(candidates)
            IN IF Len(candidates) = 0
               THEN /\ Fails(<<"No agent found with capability", capability>>)
                    /\ UNCHANGED <<capabilityMap, chosen, negotiated,
                                   agentsUsed, wlRequests>>
               ELSE /\ capabilityMap' =
                          [capabilityMap EXCEPT ![capability] = sorted]
                    /\ chosen' = sorted[1]
                    /\ negotiated' = NotNegotiated
                    /\ agentsUsed' = Append(agentsUsed,
                          IF sorted[1].name # "" THEN sorted[1].name
                          ELSE sorted[1].endpoint)
                    /\ wlRequests' = Append(wlRequests,
                          Request("/negotiate", sorted[1], k))
                    /\ wlpc' = "negotiate"
                    /\ UNCHANGED wlResponse

\* the workflow is determined and the loop entered
StartLoop ==
    /\ wlpc = "loop"
    /\ EnterStep(1, EmptyOutput)
    /\ UNCHANGED <<wlProbed, wlWorkflow, executed>>
    /\ OthersIdleLoop

\* negotiateAgent returns: on false the request fails, on true the first
\* /execute request of the step is sent
NegotiateSettles ==
    /\ wlpc = "negotiate"
    /\ \E answer \in NegotiateAnswers :
         /\ negotiated' = [answer |-> answer, result |-> negotiateAgent(answer)]
         /\ IF negotiateAgent(answer)
            THEN /\ wlAttempt' = 1
                 /\ wlRequests' = Append(wlRequests,
                                         Request("/execute", chosen, wlStep))
                 /\ wlpc' = "execute"
                 /\ UNCHANGED wlResponse
            ELSE /\ Fails(<<"rejected negotiation", chosen.endpoint>>)
                 /\ UNCHANGED <<wlAttempt, wlRequests>>
    /\ UNCHANGED <<wlProbed, capabilityMap, wlWorkflow, wlStep, chosen,
                   executed, finalOutput, agentsUsed>>
    /\ OthersIdleLoop

\* executeAgentWithRetries has returned execResponse: a response that is
\* an object with status DONE is merged and the loop goes on, anything
\* else fails the request
Returned(answer, execResponse) ==
    /\ executed' = [step |-> wlStep, attempt |-> wlAttempt,
                    answer |-> answer, result |-> execResponse]
    /\ IF execResponse.kind = "obj" /\ execResponse.status = "DONE"
       THEN EnterStep(wlStep + 1,
                      Merged(finalOutput, wlWorkflow[wlStep].capability,
                             execResponse))
       ELSE /\ Fails(<<"Agent execution failed", chosen.endpoint>>)
            /\ UNCHANGED <<capabilityMap, wlStep, chosen, negotiated,
                           wlAttempt, finalOutput, agentsUsed, wlRequests>>

\* attempts are left: await delay(baseDelay * 2^attempt); continue
Retry ==
    /\ wlpc' = "delay"
    /\ UNCHANGED <<capabilityMap, wlStep, chosen, negotiated, wlAttempt,
                   executed, finalOutput, agentsUsed, wlRequests, wlResponse>>

\* /execute answers with a non-OK status: a 5xx is retried while attempts
\* are left, anything else returns FAILED
ExecuteNotOk ==
    /\ wlpc = "execute"
    /\ \E httpStatus \in {400, 500} :
         IF httpStatus >= 500 /\ wlAttempt < maxAttempts
         THEN Retry
         ELSE Returned(ExecuteAnswer("settles", httpStatus, TextBody),
                       Obj("FAILED", Nullish))
    /\ UNCHANGED <<wlProbed, wlWorkflow>>
    /\ OthersIdleLoop

\* faulty variant: a rejected fetch is not retried
ExecuteThrowsGivesUp ==
    /\ wlpc = "execute"
    /\ Returned(ExecuteAnswer("rejects", 0, Undefined), Obj("FAILED", Nullish))
    /\ UNCHANGED <<wlProbed, wlWorkflow>>
    /\ OthersIdleLoop

\* the /execute fetch rejects or times out
ExecuteThrows ==
    /\ wlpc = "execute"
    /\ IF wlAttempt < maxAttempts
       THEN Retry
       ELSE Returned(ExecuteAnswer("rejects", 0, Undefined),
                     Obj("FAILED", Nullish))
    /\ UNCHANGED <<wlProbed, wlWorkflow>>
    /\ OthersIdleLoop

\* /execute answers OK with a body
ExecuteAnswered ==
    /\ wlpc = "execute"
    /\ \E data \in ExecuteData(wlStep) :
         Returned(ExecuteAnswer("settles", 200, data), ParsedOrDone(data))
    /\ UNCHANGED <<wlProbed, wlWorkflow>>
    /\ OthersIdleLoop

\* the delay is over: attempt++ and the next /execute request
DelayElapsed ==
    /\ wlpc = "delay"
    /\ wlAttempt' = wlAttempt + 1
    /\ wlRequests' = Append(wlRequests, Request("/execute", chosen, wlStep))
    /\ wlpc' = "execute"
    /\ UNCHANGED <<wlProbed, capabilityMap, wlWorkflow, wlStep, chosen,
                   negotiated, executed, finalOutput, agentsUsed, wlResponse>>
    /\ OthersIdleLoop

NextLoop ==
    \/ StartLoop
    \/ NegotiateSettles
    \/ ExecuteNotOk
    \/ ExecuteThrows
    \/ ExecuteAnswered
    \/ DelayElapsed

SpecLoop == InitLoop /\ [][NextLoop]_vars

(***************************************************************************)
(* negotiateAgents (src/unnamed/part_001)                                  *)
(*                                                                         *)
(* The agents are taken one after the other; each is sent POST /negotiate  *)
(* up to retryAttempts + 1 times, and one NegotiateResult per agent is     *)
(* pushed to out. The undefined of statusCode is 0, that of lastError "".  *)
(***************************************************************************)
\* the agents of the input, each with an id and a url
NegAgentPool ==
    { [id |-> "a1", url |-> "https://a1/"], [id |-> "a2", url |-> "https://a2"] }

NegPopulations(n) ==
    UNION { [1..k -> NegAgentPool] : k \in 0..n }

\* what an agent's /negotiate can answer with: the fetch rejects (network
\* error, abort on timeout), or settles with a status code and a body
NegAnswer(fetch, code, body) == [fetch |-> fetch, code |-> code, body |-> body]

NegAnswers ==
    { NegAnswer("rejects", 0, NoRespBody),
      NegAnswer("settles", 200, NegBody("obj", "REJECT", "absent", "absent")),
      NegAnswer("settles", 400, NegBody("obj", "REJECT", "absent", "absent")),
      NegAnswer("settles", 400, NegBody("obj", "ACCEPT", "absent", "absent")),
      NegAnswer("settles", 400, NegBody("obj", "OK", "absent", "absent")),
      NegAnswer("settles", 400, NegBody("obj", "absent", "true", "absent")),
      NegAnswer("settles", 400, NegBody("obj", "absent", "absent", "true")),
      NegAnswer("settles", 201, NegBody("obj", "absent", "absent", "absent")),
      NegAnswer("settles", 400, NegBody("not json", "absent", "absent", "absent")) }

\* res.json().catch(() => null)
NegJson(body) ==
    IF body.kind = "not json"
    THEN NegBody("null", "absent", "absent", "absent")
    ELSE body

\* faulty variant: any 2xx status code is an acceptance
NegOkAny2xx(code, jsonBody) ==
    \/ /\ jsonBody.kind = "obj"
       /\ \/ jsonBody.status = "ACCEPT"
          \/ jsonBody.status = "OK"
          \/ jsonBody.accepted = "true"
    \/ code \in 200..299

\* (jsonBody && (jsonBody.status === "ACCEPT" || jsonBody.status === "OK"
\*   || jsonBody.accepted === true)) || res.status === 200
NegOk(code, jsonBody) ==
    \/ /\ jsonBody.kind = "obj"
       /\ \/ jsonBody.status = "ACCEPT"
          \/ jsonBody.status = "OK"
          \/ jsonBody.accepted = "true"
    \/ code = 200

\* the NegotiateResult pushed for an agent
NegotiateResult(agent, acc, code, body, err) ==
    [agentId |-> agent.id, accepted |-> acc, statusCode |-> code,
     responseBody |-> body, error |-> IF acc THEN "" ELSE err]

InitNeg ==
    /\ IdleExec
    /\ IdleEW
    /\ IdleDisc
    /\ IdleWorker
    /\ IdleMatch
    /\ IdleOrch
    /\ IdleLoop
    /\ IdleTerms
    /\ IdleMsg
    /\ nAgents \in NegPopulations(MaxAgents)
    /\ nRetryAttempts \in 0..MaxRetry
    /\ npc = "next agent"
    /\ nIdx = 0
    /\ nAttempt = 0
    /\ nAccepted = FALSE
    /\ nLastError = ""
    /\ nRespBody = NoRespBody
    /\ nStatusCode = 0
    /\ nOut = <<>>
    /\ nAnswers = <<>>
    /\ nContacted = {}

\* for (const agent of agents): past the last agent out is returned; else
\* the locals are set for the agent and the attempt loop is entered, whose
\* first turn sends the request
NegNextAgent ==
    /\ npc = "next agent"
    /\ IF nIdx = Len(nAgents)
       THEN /\ npc' = "done"
            /\ UNCHANGED <<nIdx, nAttempt, nAccepted, nLastError, nRespBody,
                           nStatusCode, nAnswers, nContacted>>
       ELSE /\ nIdx' = nIdx + 1
            /\ nAccepted' = FALSE
            /\ nLastError' = ""
            /\ nRespBody' = NoRespBody
            /\ nStatusCode' = 0
            /\ nAttempt' = 0
            /\ nAnswers' = <<>>
            /\ nContacted' = nContacted \cup {nIdx + 1}
            /\ npc' = "fetch"
    /\ UNCHANGED <<nAgents, nRetryAttempts, nOut>>
    /\ OthersIdleNeg

\* faulty variant: the result of an agent that did not accept ends the loop
NegPushStopsOnRefusal(acc, code, body, err) ==
    /\ nOut' = Append(nOut, NegotiateResult(nAgents[nIdx], acc, code, body, err))
    /\ npc' = IF acc THEN "next agent" ELSE "done"
    /\ UNCHANGED <<nAttempt, nContacted>>

\* the attempt loop is left with the locals as given: out.push({...})
NegPush(acc, code, body, err) ==
    /\ nOut' = Append(nOut, NegotiateResult(nAgents[nIdx], acc, code, body, err))
    /\ npc' = "next agent"
    /\ UNCHANGED <<nAttempt, nContacted>>

\* the fetch settles: statusCode and respBody are set, and accepted; an
\* accepted attempt breaks out of the loop, another sets lastError and the
\* next attempt, when there is one, is sent at once
NegAnswered ==
    /\ npc = "fetch"
    /\ \E answer \in {a \in NegAnswers : a.fetch = "settles"} :
         LET jsonBody == NegJson(answer.body)
             ok == NegOk(answer.code, jsonBody)
             err == IF ok THEN nLastError
                    ELSE "unexpected-negotiation-response"
         IN /\ nStatusCode' = answer.code
            /\ nRespBody' = jsonBody
            /\ nAccepted' = ok
            /\ nLastError' = err
            /\ nAnswers' = Append(nAnswers, answer)
            /\ IF ok \/ nAttempt + 1 > nRetryAttempts
               THEN NegPush(ok, answer.code, jsonBody, err)
               ELSE /\ nAttempt' = nAttempt + 1
                    /\ npc' = "fetch"
                    /\ UNCHANGED <<nOut, nContacted>>
    /\ UNCHANGED <<nAgents, nRetryAttempts, nIdx>>
    /\ OthersIdleNeg

\* faulty variant: a rejected fetch ends the attempts of the agent
NegThrowsGivesUp ==
    /\ npc = "fetch"
    /\ nLastError' = "fetch failed"
    /\ nAnswers' = Append(nAnswers, NegAnswer("rejects", 0, NoRespBody))
    /\ NegPush(nAccepted, nStatusCode, nRespBody, "fetch failed")
    /\ UNCHANGED <<nAgents, nRetryAttempts, nIdx, nAccepted, nRespBody,
                   nStatusCode>>
    /\ OthersIdleNeg

\* the fetch rejects: lastError is the message of the error; a backoff
\* follows when attempts are left
NegThrows ==
    /\ npc = "fetch"
    /\ nLastError' = "fetch failed"
    /\ nAnswers' = Append(nAnswers, NegAnswer("rejects", 0, NoRespBody))
    /\ IF nAttempt < nRetryAttempts
       THEN /\ npc' = "backoff"
            /\ UNCHANGED <<nAttempt, nOut, nContacted>>
       ELSE NegPush(nAccepted, nStatusCode, nRespBody, "fetch failed")
    /\ UNCHANGED <<nAgents, nRetryAttempts, nIdx, nAccepted, nRespBody,
                   nStatusCode>>
    /\ OthersIdleNeg

\* the backoff is over: attempt++ and the next request
NegBackoffElapsed ==
    /\ npc = "backoff"
    /\ nAttempt' = nAttempt + 1
    /\ npc' = "fetch"
    /\ UNCHANGED <<nAgents, nRetryAttempts, nIdx, nAccepted, nLastError,
                   nRespBody, nStatusCode, nOut, nAnswers, nContacted>>
    /\ OthersIdleNeg

NextNeg ==
    \/ NegNextAgent
    \/ NegAnswered
    \/ NegThrows
    \/ NegBackoffElapsed

SpecNeg == InitNeg /\ [][NextNeg]_vars

(***************************************************************************)
(* negotiate_terms (src/unnamed/part_002)                                  *)
(*                                                                         *)
(* The steps are taken one after the other; the agent of each is posted a  *)
(* proposal by postWithRetry, and one response per step is pushed. The     *)
(* message of a response is left out.                                      *)
(***************************************************************************)
\* the agents of the steps, each with an id and an endpoint
TermsAgentPool ==
    { [id |-> "a1", endpoint |-> "https://a1/"],
      [id |-> "a2", endpoint |-> "https://a2"] }

\* input.workflow: step k has stepId k and an agent of the pool
TermsWorkflows(n) ==
    UNION { [1..k -> [stepId : {k}, agent : TermsAgentPool]] : k \in 0..n }

\* res.data of an agent's /negotiate: null, or an object whose status is a
\* token or is absent
TermsData ==
    { [kind |-> "null", status |-> ""] }
    \cup { [kind |-> "obj", status |-> s] : s \in {"ACCEPT", "accept", "REJECT", ""} }

\* raw && raw.status ? String(raw.status) : "UNKNOWN"
TermsStatus(raw) ==
    IF raw.kind = "obj" /\ raw.status # "" THEN raw.status ELSE "UNKNOWN"

\* okCount === responses.length ? "OK" : okCount > 0 ? "PARTIAL" : "FAILED"
TermsOverall(responses) ==
    LET okCount == Cardinality({ k \in 1..Len(responses) :
                        ToUpperCase(responses[k].status) = "ACCEPT" })
    IN IF okCount = Len(responses) THEN "OK"
       ELSE IF okCount > 0 THEN "PARTIAL"
       ELSE "FAILED"

InitTerms ==
    /\ IdleExec
    /\ IdleEW
    /\ IdleDisc
    /\ IdleWorker
    /\ IdleMatch
    /\ IdleOrch
    /\ IdleLoop
    /\ IdleNeg
    /\ IdleMsg
    /\ tWorkflow \in TermsWorkflows(MaxAgents)
    /\ tMaxRetries \in 0..MaxRetry
    /\ tpc = "next step"
    /\ tIdx = 0
    /\ tAttempt = 0
    /\ tResponses = <<>>
    /\ tContacted = {}
    /\ tResult = NoNegotiation

\* for (const step of workflow): past the last step the overall result is
\* returned; else postWithRetry is called for the step's agent and sends
\* its first request
TermsNextStep ==
    /\ tpc = "next step"
    /\ IF tIdx = Len(tWorkflow)
       THEN /\ tResult' = [status |-> TermsOverall(tResponses),
                           responses |-> tResponses]
            /\ tpc' = "done"
            /\ UNCHANGED <<tIdx, tAttempt, tContacted>>
       ELSE /\ tIdx' = tIdx + 1
            /\ tAttempt' = 0
            /\ tContacted' = tContacted \cup {tIdx + 1}
            /\ tpc' = "post"
            /\ UNCHANGED tResult
    /\ UNCHANGED <<tWorkflow, tMaxRetries, tResponses>>
    /\ OthersIdleTerms

\* axios.post resolves: postWithRetry returns res.data and the response of
\* the step is pushed
TermsResolved ==
    /\ tpc = "post"
    /\ \E raw \in TermsData :
         tResponses' = Append(tResponses,
                              [agentId |-> tWorkflow[tIdx].agent.id,
                               status |-> TermsStatus(raw), raw |-> raw])
    /\ tpc' = "next step"
    /\ UNCHANGED <<tWorkflow, tMaxRetries, tIdx, tAttempt, tContacted, tResult>>
    /\ OthersIdleTerms

\* axios.post rejects (network error, timeout, non-2xx status): attempt++
\* and the backoff
TermsRejected ==
    /\ tpc = "post"
    /\ tAttempt' = tAttempt + 1
    /\ tpc' = "backoff"
    /\ UNCHANGED <<tWorkflow, tMaxRetries, tIdx, tResponses, tContacted,
                   tResult>>
    /\ OthersIdleTerms

\* the backoff is over: the next request while attempt <= maxRetries; else
\* postWithRetry throws lastError and the catch pushes an ERROR response
TermsBackoffElapsed ==
    /\ tpc = "backoff"
    /\ IF tAttempt <= tMaxRetries
       THEN /\ tpc' = "post"
            /\ UNCHANGED tResponses
       ELSE /\ tResponses' = Append(tResponses,
                                    [agentId |-> tWorkflow[tIdx].agent.id,
                                     status |-> "ERROR",
                                     raw |-> [kind |-> "null", status |-> ""]])
            /\ tpc' = "next step"
    /\ UNCHANGED <<tWorkflow, tMaxRetries, tIdx, tAttempt, tContacted, tResult>>
    /\ OthersIdleTerms

NextTerms ==
    \/ TermsNextStep
    \/ TermsResolved
    \/ TermsRejected
    \/ TermsBackoffElapsed

SpecTerms == InitTerms /\ [][NextTerms]_vars

(***************************************************************************)
(* Orchestrator POST /execute: the negotiation and execution stages        *)
(*                                                                         *)
(* The handler awaits negotiateAgents and executeWorkflow; their steps are *)
(* the actions of those functions above, started and read back here.       *)
(***************************************************************************)
\* the components other than the handler and negotiateAgents
OthersIdleOrchNeg ==
    UNCHANGED <<varsExec, varsEW, varsDisc, varsWorker, varsMatch, varsLoop,
                varsTerms, varsMsg>>

\* the components other than the handler and executeWorkflow
OthersIdleOrchExec ==
    UNCHANGED <<varsEW, varsDisc, varsWorker, varsMatch, varsLoop, varsNeg,
                varsTerms, varsMsg>>

\* error(`Negotiation failed for agents: ${ids}`, 502)
RefusedResponse(ids) ==
    [ErrorResponse(502, <<>>) EXCEPT !.refused = ids]

\* faulty variant: the execution failure is answered through error(), which
\* has no logs field
ExecutionFailedNoLogs(execResult) ==
    [ErrorResponse(502, <<>>) EXCEPT
        !.failed = <<execResult.agent, execResult.step>>]

\* json({ status: "ERROR", message: execResult.error || "Execution failed",
\*        logs: execResult.logs || [] }, 502)
ExecutionFailedResponse(execResult) ==
    [ErrorResponse(502, <<>>) EXCEPT
        !.fields = {"status", "message", "logs"},
        !.failed = <<execResult.agent, execResult.step>>,
        !.logs = execResult.logs]

\* json({ status: "DONE", wallet: execResult.finalOutput,
\*        report: execResult.finalOutput, logs, agents, timestamp }, 200)
DoneResponse(execResult) ==
    [NoResponse EXCEPT
        !.kind = "json", !.status = "DONE", !.code = 200,
        !.fields = {"status", "wallet", "report", "logs", "agents", "timestamp"},
        !.wallet = execResult.output,
        !.report = execResult.output,
        !.logs = execResult.logs]

\* faulty variant: no result counts as a refusal
RefusedNone(results) == <<>>

\* negotiateResults.filter(r => !r.accepted).map(r => r.agentId)
Refused(results) ==
    LET refused == SelectSeq(results, LAMBDA r : ~r.accepted)
    IN [k \in 1..Len(refused) |-> refused[k].agentId]

\* negotiateAgents(matches.map(m => m.agent), { retryAttempts: 1 }) is
\* called with agents that have a url
CallNegotiateAgents ==
    /\ opc = "negotiate"
    /\ oUrl
    /\ oInvoked' = oInvoked \cup {"negotiateAgents"}
    /\ opc' = "negotiating"
    /\ nAgents' = [k \in 1..Len(oMatches) |->
                      [id |-> oMatches[k].agent.id,
                       url |-> oMatches[k].agent.endpoint]]
    /\ nRetryAttempts' = 1
    /\ npc' = "next agent"
    /\ UNCHANGED <<nIdx, nAttempt, nAccepted, nLastError, nRespBody,
                   nStatusCode, nOut, nAnswers, nContacted>>
    /\ UNCHANGED <<oBody, oAgents, oUrl, oMatches, negotiateResults, oRequests,
                   oResponse>>
    /\ OthersIdleOrchNeg

\* negotiateAgents has returned and its frame is gone: a refusing agent
\* ends the request with a 502; else executeWorkflow(matches, { address }, { retryAttempts: 1 }) is
\* called
NegotiateAgentsReturned ==
    /\ opc = "negotiating"
    /\ npc = "done"
    /\ negotiateResults' = [k \in 1..Len(nOut) |->
                               [agentId |-> nOut[k].agentId,
                                accepted |-> nOut[k].accepted]]
    /\ oRequests' = oRequests \o
                    [k \in 1..Len(nOut) |->
                        [path |-> "/negotiate", agentId |-> nOut[k].agentId]]
    /\ nAgents' = <<>>
    /\ nRetryAttempts' = 0
    /\ npc' = "idle"
    /\ nIdx' = 0
    /\ nAttempt' = 0
    /\ nAccepted' = FALSE
    /\ nLastError' = ""
    /\ nRespBody' = NoRespBody
    /\ nStatusCode' = 0
    /\ nOut' = <<>>
    /\ nAnswers' = <<>>
    /\ nContacted' = {}
    /\ IF Len(Refused(negotiateResults')) > 0
       THEN /\ oResponse' = RefusedResponse(Refused(negotiateResults'))
            /\ opc' = "done"
            /\ UNCHANGED <<oInvoked, varsExec>>
       ELSE /\ oInvoked' = oInvoked \cup {"executeWorkflow"}
            /\ opc' = "executing"
            /\ matches' = Len(oMatches)
            /\ retryAttempts' = 1
            /\ initialPayload' \in InitialPayloads
            /\ payload' = initialPayload'
            /\ xpc' = "for"
            /\ calls' = [i \in 1..MaxSteps |-> <<>>]
            /\ UNCHANGED <<step, attempt, success, lastError, out, statusCode,
                           logs, xresult, inflight, waited, lastBody>>
            /\ UNCHANGED oResponse
    /\ UNCHANGED <<oBody, oAgents, oUrl, oMatches>>
    /\ UNCHANGED <<varsEW, varsDisc, varsWorker, varsMatch, varsLoop, varsTerms,
                   varsMsg>>

\* executeWorkflow has returned: the failure response or the final one
ExecuteWorkflowReturned ==
    /\ opc = "executing"
    /\ xpc = "done"
    /\ oRequests' = oRequests \o
                    [k \in 1..Len(xresult.logs) |->
                        [path |-> "/execute", agentId |-> oMatches[k].agent.id]]
    /\ oResponse' = IF ~xresult.success
                    THEN ExecutionFailedResponse(xresult)
                    ELSE DoneResponse(xresult)
    /\ opc' = "done"
    /\ UNCHANGED <<oBody, oAgents, oUrl, oMatches, negotiateResults, oInvoked>>
    /\ UNCHANGED varsExec
    /\ OthersIdleOrchExec

NextOrch ==
    \/ ParseBody
    \/ DiscoverAgentsReturns
    \/ MatchAndCheck
    \/ NegotiateAgentsThrows
    \/ CallNegotiateAgents
    \/ NextNeg
    \/ NegotiateAgentsReturned
    \/ NextExec
    \/ ExecuteWorkflowReturned

SpecOrch == InitOrch /\ [][NextOrch]_vars

(***************************************************************************)
(* onMessage (src/icma/src/index.ts, lines 6-20)                           *)
(*                                                                         *)
(* The facade awaits discover_agents, match_agents, negotiate_terms and    *)
(* execute_workflow in turn; the steps of the last two are the actions of  *)
(* those functions above, started and read back here.                      *)
(***************************************************************************)
\* DEFAULTS.maxRetries of negotiate_terms, which onMessage leaves unset
DefaultMaxRetries == 2

\* plan.workflow of match_agents: no agent id is chosen twice
Plans ==
    { w \in TermsWorkflows(MaxAgents) :
        \A i, j \in 1..Len(w) : w[i].agent.id = w[j].agent.id => i = j }

OthersIdleMsgTerms ==
    UNCHANGED <<varsExec, varsEW, varsDisc, varsWorker, varsMatch, varsOrch,
                varsLoop, varsNeg>>

OthersIdleMsgEW ==
    UNCHANGED <<varsExec, varsDisc, varsWorker, varsMatch, varsOrch, varsLoop,
                varsNeg, varsTerms>>

InitMsg ==
    /\ IdleExec
    /\ IdleEW
    /\ IdleDisc
    /\ IdleWorker
    /\ IdleMatch
    /\ IdleOrch
    /\ IdleLoop
    /\ IdleNeg
    /\ IdleTerms
    /\ fpc = "plan"
    /\ fPlan = <<>>
    /\ fInvoked = {}
    /\ fReturn = NoReturn

\* agents = await discover_agents(...); plan = await match_agents(...)
MatchAgentsReturns ==
    /\ fpc = "plan"
    /\ fPlan' \in Plans
    /\ fInvoked' = fInvoked \cup {"discover_agents", "match_agents"}
    /\ fpc' = "negotiate"
    /\ UNCHANGED fReturn
    /\ OthersIdleMsg

\* negotiate_terms({ workflow: plan.workflow, proposalTemplate }) is called
CallNegotiateTerms ==
    /\ fpc = "negotiate"
    /\ tpc = "idle"
    /\ tWorkflow' = fPlan
    /\ tMaxRetries' = DefaultMaxRetries
    /\ tpc' = "next step"
    /\ UNCHANGED <<tIdx, tAttempt, tResponses, tContacted, tResult>>
    /\ fInvoked' = fInvoked \cup {"negotiate_terms"}
    /\ fpc' = "negotiating"
    /\ UNCHANGED <<fPlan, fReturn>>
    /\ OthersIdleMsgTerms

\* negotiation = await negotiate_terms(...) is back; then
\* execute_workflow({ workflow: plan.workflow, parallel: false }) is called,
\* whatever the negotiation's status
NegotiateTermsReturned ==
    /\ fpc = "negotiating"
    /\ tpc = "done"
    /\ workflow' = Len(fPlan)
    /\ parallel' = FALSE
    /\ wpc' = "loop"
    /\ wcalls' = [i \in 1..MaxWf |-> 0]
    /\ UNCHANGED <<cursor, outputs, overallStatus, winflight>>
    /\ fInvoked' = fInvoked \cup {"execute_workflow"}
    /\ fpc' = "executing"
    /\ UNCHANGED <<fPlan, fReturn>>
    /\ OthersIdleMsgEW

\* executeRes = await execute_workflow(...) is back: the return value
ExecuteWorkflowReturns ==
    /\ fpc = "executing"
    /\ wpc = "done"
    /\ fReturn' = [message |-> "ICMA finished",
                   negotiation |-> tResult.status,
                   executeRes |-> overallStatus]
    /\ fpc' = "done"
    /\ UNCHANGED <<fPlan, fInvoked>>
    /\ OthersIdleMsg

\* execute_workflow is called with parallel: false, so its steps here are
\* those of the sequential mode
NextMsg ==
    \/ MatchAgentsReturns
    \/ CallNegotiateTerms
    \/ NextTerms
    \/ NegotiateTermsReturned
    \/ SeqCall
    \/ SeqResolved
    \/ SeqRejected
    \/ SeqReturn
    \/ ExecuteWorkflowReturns

SpecMsg == InitMsg /\ [][NextMsg]_vars

(***************************************************************************)
(* executeWorkflow: properties                                             *)
(***************************************************************************)
\* number of /execute requests sent for step i
Sent(i) == Len(calls[i])

\* the output field of the response step j was accepted with, as the log
\* shows it: the log holds the field when it was there, else the whole body
AcceptedOutputField(j) ==
    IF logs[j].output.kind = "atom" THEN logs[j].output ELSE Undefined

\* C1: sequential execution stops at the first step whose attempts are
\* exhausted without an accepted response: the run is over with
\* success=false, the result names the failing agent and step, the log has
\* one entry for each step up to and including the failing one, and no
\* later step has been sent an /execute request.
C1_ShortCircuit ==
    \A f \in 1..Len(logs) :
        ~logs[f].success =>
            /\ f = Len(logs)
            /\ xpc = "done"
            /\ xresult.kind = "failed"
            /\ xresult.success = FALSE
            /\ xresult.agent = AgentId(f)
            /\ xresult.step = StepName(f)
            /\ xresult.logs = logs
            /\ \A j \in 1..f : logs[j].step = StepName(j)
            /\ \A j \in 1..(f - 1) : logs[j].success
            /\ \A j \in (f + 1)..MaxSteps : Sent(j) = 0
            /\ ~ENABLED SendExecute

\* C1 witness: three steps, the first answered non-DONE on every attempt.
C1_Witness ==
    /\ matches = 3
    /\ retryAttempts = 1
    /\ xpc = "done"
    /\ Len(logs) = 1
    /\ logs[1].error = "unexpected-response"
    /\ Sent(1) = 2
    /\ Sent(2) = 0
    /\ Sent(3) = 0

\* C3: the first /execute request of step i+1 is sent only when step i's
\* outcome is known and logged, and at most one /execute request is in
\* flight at any time.
C3_OneStepAtATime ==
    /\ Cardinality(inflight) <= 1
    /\ \A i \in 1..MaxSteps :
          Sent(i) > 0 =>
              /\ Len(logs) >= i - 1
              /\ \A j \in 1..(i - 1) :
                    logs[j].step = StepName(j) /\ logs[j].success
    /\ \A r \in inflight : Len(logs) = r[1] - 1 /\ r[2] = Sent(r[1])

\* C3 witness: a request of the second step is in flight.
C3_Witness ==
    /\ inflight = {<<2, 1>>}
    /\ Len(logs) = 1

C5_BudgetInv ==
    retryAttempts >= 0 =>
        /\ \A i \in 1..MaxSteps : Sent(i) <= retryAttempts + 1
        /\ (xpc = "push" /\ success) => Sent(step) = attempt + 1
        /\ (xpc = "push" /\ success /\ attempt = retryAttempts) =>
              Sent(step) = retryAttempts + 1
        /\ \A j \in 1..Len(logs) :
              /\ ~logs[j].success => Sent(j) = retryAttempts + 1
              /\ Cardinality({k \in 1..Len(logs) :
                                 logs[k].step = StepName(j)}) = 1
        /\ xresult.kind = "final" =>
              /\ xresult.success
              /\ \A j \in 1..matches : logs[j].success

\* C5: the retry budget is respected (C5_BudgetInv in every state) and no
\* request is sent for a step once a response of it has been accepted.
C5_RetryBudget ==
    /\ []C5_BudgetInv
    /\ [][success => calls' = calls]_vars

\* C5 witness: a one-step run that failed its first retryAttempts calls,
\* was accepted on the last allowed one and ended in overall success.
C5_Witness ==
    /\ matches = 1
    /\ retryAttempts = MaxRetry
    /\ xresult.kind = "final"
    /\ xresult.success
    /\ Sent(1) = retryAttempts + 1
    /\ Len(logs) = 1
    /\ logs[1].success

\* C6, state part: the log has one entry per step the loop has handled, in
\* the order of the matches list; with retryAttempts >= 0 these are the
\* steps that were sent a request; the returned log is the whole log.
C6_LogInv ==
    /\ Len(logs) <= matches
    /\ \A j \in 1..Len(logs) :
          logs[j].step = StepName(j) /\ logs[j].agentId = AgentId(j)
    /\ \A i \in 1..MaxSteps : Sent(i) > 0 => i <= Len(logs) + 1
    /\ xpc \in {"for", "done"} =>
          \A i \in 1..MaxSteps : Sent(i) > 0 => i <= Len(logs)
    /\ retryAttempts >= 0 => \A j \in 1..Len(logs) : Sent(j) > 0
    /\ xpc = "done" => xresult.logs = logs /\ xresult.kind # "none"

\* C6: one log entry per attempted step whatever its number of attempts,
\* in the order of the matches list (C6_LogInv in every state); an entry
\* once appended is never changed or removed; the whole log is returned on
\* success and on failure.
C6_LogOncePerStep ==
    /\ []C6_LogInv
    /\ [][/\ Len(logs') >= Len(logs)
           /\ SubSeq(logs', 1, Len(logs)) = logs]_vars

\* C6 witness: a failed run whose second step used two attempts: two
\* entries, returned with the failure.
C6_Witness ==
    /\ xresult.kind = "failed"
    /\ Len(xresult.logs) = 2
    /\ Sent(2) = 2
    /\ Sent(1) = 2

EntriesOf(i) == {k \in 1..Len(outputs) : outputs[k].stepId = i}

\* step i was called and answered with the status DONE (in any letter case)
AnsweredDone(i) ==
    /\ wcalls[i] > 0
    /\ \E k \in EntriesOf(i) : ToUpperCase(outputs[k].status) = "DONE"

\* the steps of the input workflow that were called and answered DONE
DoneSteps == {i \in 1..workflow : AnsweredDone(i)}

\* C2: in sequential mode a step answered with a body whose status is not
\* DONE ends the run: its entry is the last of outputs and no later step
\* has been called.
C2_SeqStopsOnNonDone ==
    ~parallel =>
        \A k \in 1..Len(outputs) :
            ToUpperCase(outputs[k].status) # "DONE" =>
                /\ k = Len(outputs)
                /\ \A j \in (outputs[k].stepId + 1)..MaxWf : wcalls[j] = 0

C10_ProbeNeverRaises ==
    (dpc = "done" /\ probeEndpoints) =>
        /\ dresult.kind = "returned"
        /\ Len(dresult.agents) = Len(fallback)
        /\ \A i \in 1..Len(fallback) :
              Cardinality({k \in 1..Len(dresult.agents) :
                             dresult.agents[k].id = fallback[i].id}) = 1

\* the capability query of a mapper call failed: every attempt got a non-OK
\* status, a timeout, a network error or an unparsable body, or the body
\* that came back has no capabilities list
ProbeFailed(c) ==
    ~c.answered \/ c.data.kind # "obj" \/ ~c.data.capsIsArray

\* the mapper calls that have returned for a failed capability query
FailedCompletions ==
    {k \in 1..Len(completions) : ProbeFailed(completions[k])}

\* C11 as claimed: an agent whose capability query failed is in the output
\* with its id, name, endpoint, capability set and metadata unchanged.
C11_FailedAgentInOutput ==
    dresult.kind = "returned" =>
        \A k \in FailedCompletions :
            \E j \in 1..Len(dresult.agents) :
                dresult.agents[j] = fallback[completions[k].item]

\* C11 as amended: an agent is sent at most retryAttempts+1 capability
\* queries; when its query failed, the record the probe stage yields for
\* it is the input record unchanged, and that record is in the output
\* unless a later agent of the input has the same id (the later one is
\* kept then); only an OK response with a capabilities list replaces the
\* capability set (and may add a name and metadata), id and endpoint
\* staying as they were.
C11_FailedProbeKeepsRecord ==
    /\ \A i \in 1..Len(probe) : probe[i].attempt <= probeRetries
    /\ \A k \in 1..Len(completions) :
          LET c == completions[k]
              agent == fallback[c.item]
          IN IF ProbeFailed(c)
             THEN probed[c.item] = agent
             ELSE /\ probed[c.item].id = agent.id
                  /\ probed[c.item].endpoint = agent.endpoint
                  /\ probed[c.item].capabilities = c.data.capabilities
                  /\ agent.meta \subseteq probed[c.item].meta
    /\ dresult.kind = "returned" =>
          \A k \in FailedCompletions :
              LET i == completions[k].item
              IN (\A j \in (i + 1)..Len(fallback) :
                     fallback[j].id # fallback[i].id) =>
                    \E j \in 1..Len(dresult.agents) :
                        dresult.agents[j] = fallback[i]

\* C11 witness: the first agent, which has a capability of its own, was
\* given up after retryAttempts+1 queries, the second got a capabilities
\* list; the first is returned unchanged.
C11_Witness ==
    /\ dresult.kind = "returned"
    /\ probeRetries = MaxProbeRetry
    /\ Len(completions) = 2
    /\ \E k \in 1..2 : completions[k].item = 1 /\ ~completions[k].answered
    /\ \E k \in 1..2 : completions[k].item = 2 /\ ~ProbeFailed(completions[k])
    /\ fallback[1].capabilities = {"scan"}
    /\ Len(dresult.agents) = 2
    /\ dresult.agents[1] = fallback[1]
    /\ dresult.agents[2].capabilities = {"scan", "report"}

\* mapper calls that have started and not returned: their capability query
\* is in flight or waits for its retry
ActiveProbes ==
    {i \in 1..Len(probe) : probe[i].pc \in {"fetch", "backoff"}}

\* C13: at any moment the number of capability probes in flight exceeds
\* neither probeConcurrency nor the number of agents, and the probes not
\* yet started are the items behind pMap's cursor.
C13_BoundedProbes ==
    dpc = "probing" =>
        /\ Cardinality(ActiveProbes) <= probeConcurrency
        /\ Cardinality(ActiveProbes) <= Len(fallback)
        /\ Cardinality(ActiveProbes) = workers
        /\ \A i \in 1..Len(probe) : probe[i].pc = "pending" <=> i > current

\* C13 witness: two agents under a concurrency of 1: the probe of the
\* second started only after the first had returned.
C13_Witness ==
    /\ dpc = "probing"
    /\ probeConcurrency = 1
    /\ Len(fallback) = 2
    /\ probe[1].pc = "settled"
    /\ probe[2].pc = "fetch"

\* C14: every returned population, with probing enabled or disabled, has
\* pairwise distinct agent ids, and each returned id is the id of an agent
\* of the input population (the normalized registry, or the default set).
C14_DistinctKnownIds ==
    dresult.kind = "returned" =>
        /\ \A j, k \in 1..Len(dresult.agents) :
              dresult.agents[j].id = dresult.agents[k].id => j = k
        /\ \A j \in 1..Len(dresult.agents) :
              \E i \in 1..Len(fallback) : fallback[i].id = dresult.agents[j].id

\* the greatest element of a non-empty set of numbers
Last(S) == CHOOSE m \in S : \A x \in S : x <= m

\* the input agents that have the id
ItemsOf(id) == {i \in 1..Len(fallback) : fallback[i].id = id}

\* C15 as claimed: the record kept for an id is the one of the agent with
\* that id whose probe completed most recently.
C15_KeepsLastCompleted ==
    (dresult.kind = "returned" /\ probeEndpoints) =>
        \A j \in 1..Len(dresult.agents) :
            LET ks == {k \in 1..Len(completions) :
                          completions[k].item \in ItemsOf(dresult.agents[j].id)}
            IN dresult.agents[j] = probed[completions[Last(ks)].item]

\* C15 as amended: the record kept for an id is the one the probe stage
\* yields for the last agent with that id in the order of the input
\* population, whatever the order in which the probes completed.
C15_KeepsLastInInput ==
    (dresult.kind = "returned" /\ probeEndpoints) =>
        /\ \A j \in 1..Len(dresult.agents) :
              dresult.agents[j] = probed[Last(ItemsOf(dresult.agents[j].id))]
        /\ \A i \in 1..Len(fallback) :
              \E j \in 1..Len(dresult.agents) :
                  dresult.agents[j].id = fallback[i].id

\* C15 witness: two agents share an id, the probe of the second completed
\* before the probe of the first with a different record, and the record
\* of the second is the one returned.
C15_Witness ==
    /\ dresult.kind = "returned"
    /\ probeEndpoints
    /\ Len(fallback) = 2
    /\ fallback[1].id = fallback[2].id
    /\ Len(completions) = 2
    /\ completions[1].item = 2
    /\ completions[2].item = 1
    /\ probed[1] # probed[2]
    /\ dresult.agents = <<probed[2]>>

\* the registry fetch gives discoverAgents nothing to work with: it fails,
\* answers with a non-success status or with a payload that is not a list,
\* or no entry of the list has an id and an address
NoUsableRegistry(response) ==
    \/ response.kind \in {"throws", "notok", "notarray"}
    \/ \A k \in 1..Len(response.agents) :
          \/ ~response.agents[k].present
          \/ response.agents[k].id = ""
          \/ (response.agents[k].endpoint = "" /\ response.agents[k].url = "")

\* C16, state part: past the registry stage the population is never empty,
\* and neither is a returned population.
C16_PopulationInv ==
    /\ dpc \in {"pmap", "probing", "done"} => Len(fallback) > 0
    /\ dresult.kind = "returned" => Len(dresult.agents) > 0

\* C16: discoverAgents never proceeds with zero agents (C16_PopulationInv
\* in every state), and the registry stage ends without an error: with the
\* default population when the registry gave nothing usable, with agents
\* of the registry otherwise; with probing off that population is returned.
C16_DefaultsOnBadRegistry ==
    /\ []C16_PopulationInv
    /\ [][dpc = "load" =>
            /\ dpc' \in {"pmap", "done"}
            /\ dresult'.kind # "threw"
            /\ NoUsableRegistry(regResponse) => fallback' = DefaultAgents
            /\ ~NoUsableRegistry(regResponse) =>
                  /\ Len(fallback') \in 1..Len(regResponse.agents)
                  /\ \A i \in 1..Len(fallback') :
                        \E k \in 1..Len(regResponse.agents) :
                            fallback'[i].id = regResponse.agents[k].id
            /\ ~probeEndpoints =>
                  dresult' = [kind |-> "returned", agents |-> fallback']
         ]_vars

\* C16 witness: the registry gave nothing usable, the two default agents
\* were probed, one of them got a capabilities list, and both are returned.
C16_Witness ==
    /\ dresult.kind = "returned"
    /\ probeEndpoints
    /\ fallback = DefaultAgents
    /\ Len(dresult.agents) = 2
    /\ dresult.agents[1].id = "wallet-agent"
    /\ dresult.agents[1].capabilities = {"scan", "report"}
    /\ dresult.agents[2] = DefaultAgents[2]

\* C17: every agent descriptor built from the registry has a non-empty id
\* and a non-empty endpoint.
C17_NonEmptyIdAndEndpoint ==
    \A i \in 1..Len(fallback) :
        fallback[i].id # "" /\ fallback[i].endpoint # ""

(***************************************************************************)
(* Worker orchestrator: properties                                         *)
(***************************************************************************)
\* C12: probeAgents yields one record for every registry agent, an agent
\* whose capability query failed included, so that the returned records
\* are as many as the registry agents.
C12_OneRecordPerAgent ==
    wkProbed.kind = "returned" =>
        /\ Len(wkProbed.agents) = Len(wkRegistry)
        /\ \A i \in 1..Len(wkRegistry) :
              \E k \in 1..Len(wkProbed.agents) :
                  wkProbed.agents[k].endpoint = wkRegistry[i].endpoint

\* the mapper calls that have returned for item i
MappedCalls(i) == {k \in 1..Len(completions) : completions[k].item = i}

\* C35: pMap hands every item index to exactly one worker: no item is
\* mapped twice under any interleaving, and when pMap resolves every item
\* has been mapped and the result holds at position i the mapper's result
\* for items[i], for every concurrency value, 0 and values above the item
\* count included.
C35_EveryItemMappedOnce ==
    probeEndpoints =>
        /\ \A i \in 1..Len(fallback) : Cardinality(MappedCalls(i)) <= 1
        /\ dpc = "done" =>
              /\ Len(probed) = Len(fallback)
              /\ \A i \in 1..Len(fallback) :
                    /\ Cardinality(MappedCalls(i)) = 1
                    /\ \A k \in MappedCalls(i) :
                          probed[i] = Mapped(fallback[i], completions[k].data)

(***************************************************************************)
(* matchCapabilities and match_agents: properties                          *)
(***************************************************************************)
\* the least element of a non-empty set of numbers
First(S) == CHOOSE m \in S : \A x \in S : m <= x

\* the agents of the population whose capability set contains the step
Qualifying(stepName) ==
    {i \in 1..Len(mAgents) : stepName \in mAgents[i].capabilities}

\* the entries of the preference list that name a qualifying agent
QualifyingPrefs(stepName) ==
    {p \in 1..Len(mOpts.preferAgentIds) :
        \E i \in Qualifying(stepName) :
            mAgents[i].id = mOpts.preferAgentIds[p]}

\* the agent the contract assigns to a step that has a qualifying agent
Expected(stepName) ==
    IF mOpts.given /\ QualifyingPrefs(stepName) # {}
    THEN LET id == mOpts.preferAgentIds[First(QualifyingPrefs(stepName))]
         IN mAgents[First({i \in Qualifying(stepName) : mAgents[i].id = id})]
    ELSE mAgents[First(Qualifying(stepName))]

\* the positions of the required steps that have a qualifying agent
MatchedSteps == {k \in 1..Len(mSteps) : Qualifying(mSteps[k]) # {}}

\* C18: matchCapabilities returns one assignment for each required step
\* that has a qualifying agent, in the order of the steps, and none for
\* the other steps; the agent is the one of the first preferred id with a
\* qualifying agent when a preference list is given and has such an id,
\* and the first qualifying agent in population order otherwise.
C18_FirstPreferredElseFirstFit ==
    mFn = "matchCapabilities" =>
        \A r \in 1..Len(mRuns) :
            /\ Len(mRuns[r].matches) = Cardinality(MatchedSteps)
            /\ \A j \in 1..Len(mRuns[r].matches) :
                  LET k == CHOOSE m \in MatchedSteps :
                             Cardinality({x \in MatchedSteps : x < m}) = j - 1
                  IN /\ mRuns[r].matches[j].step = mSteps[k]
                     /\ mRuns[r].matches[j].agent = Expected(mSteps[k])

\* C18 witness: both agents can scan wallets, the first preferred id is
\* unknown and the second is the second agent, which gets the step; the
\* step nobody can do has no assignment.
C18_Witness ==
    /\ mFn = "matchCapabilities"
    /\ Len(mRuns) = 1
    /\ Len(mAgents) = 2
    /\ mAgents[1].id = "a" /\ mAgents[1].capabilities = {"wallet_scan"}
    /\ mAgents[2].id = "b" /\ mAgents[2].capabilities = {"wallet_scan"}
    /\ mOpts.preferAgentIds = <<"c", "b">>
    /\ mSteps = <<"mint", "wallet_scan">>
    /\ mRuns[1].matches = <<[step |-> "wallet_scan", agent |-> mAgents[2]]>>

ChosenBefore(reasons, p) ==
    {reasons[q][3] : q \in {x \in 1..(p - 1) : Len(reasons[x]) = 3}}

\* the passes of a plan's loop that left their requirement unassigned
Unassigned(reasons) ==
    {p \in 1..Len(reasons) : reasons[p][1] = "No agents available"}

\* C32: in the plan match_agents returns for a goal with at least one
\* requirement, no agent id is assigned to more than one requirement, and
\* a requirement is left without an assignment only if every agent id of
\* the population has already been chosen.
C32_NoAgentTwiceUnassignedOnlyWhenExhausted ==
    (mFn = "match_agents" /\ Requirements(mGoal) # <<>>) =>
        \A r \in 1..Len(mRuns) :
            LET plan == mRuns[r]
            IN /\ \A i, j \in 1..Len(plan.workflow) :
                     plan.workflow[i].agent.id = plan.workflow[j].agent.id
                         => i = j
               /\ Len(plan.reasons) = Len(Requirements(mGoal))
               /\ Len(plan.workflow) + Cardinality(Unassigned(plan.reasons))
                      = Len(Requirements(mGoal))
               /\ \A p \in Unassigned(plan.reasons) :
                     {mAgents[i].id : i \in 1..Len(mAgents)}
                         \subseteq ChosenBefore(plan.reasons, p)

\* C32 witness: three requirements and two agents with different ids: the
\* first two requirements get one agent each and the third is unassigned.
C32_Witness ==
    /\ mFn = "match_agents"
    /\ mGoal = {"wallet", "pdf", "upload"}
    /\ Len(mAgents) = 2
    /\ mAgents[1].id # mAgents[2].id
    /\ Len(mRuns) = 1
    /\ Len(mRuns[1].workflow) = 2
    /\ Unassigned(mRuns[1].reasons) = {3}

\* the agents of the population no pass before pass p has chosen
FreeAt(reasons, p) ==
    {i \in 1..Len(mAgents) : mAgents[i].id \notin ChosenBefore(reasons, p)}

\* the earliest of the free agents that no free agent outscores
BestFree(reasons, p, req) ==
    First({i \in FreeAt(reasons, p) :
              \A j \in FreeAt(reasons, p) :
                  Score(mAgents[j], req) <= Score(mAgents[i], req)})

\* C33: for each requirement, match_agents assigns the not-yet-chosen agent
\* with the highest score, the score being the number of the agent's
\* capability names that contain a keyword of the requirement; among
\* not-yet-chosen agents of equal score the earliest in population order
\* is picked, also when every score is zero.
C33_HighestScoreEarliestFirst ==
    (mFn = "match_agents" /\ Requirements(mGoal) # <<>>) =>
        \A r \in 1..Len(mRuns) :
            \A p \in 1..Len(mRuns[r].reasons) :
                LET reasons == mRuns[r].reasons
                    req == Requirements(mGoal)[p]
                    n == Cardinality({q \in 1..p : Len(reasons[q]) = 3})
                IN FreeAt(reasons, p) # {} =>
                      LET best == mAgents[BestFree(reasons, p, req)]
                          got == mRuns[r].workflow[n]
                      IN /\ Len(reasons[p]) = 3
                         /\ got.agent = best
                         /\ got.role = req.role
                         /\ got.confidence =
                               IF Score(best, req) > 0
                               THEN Confidence(Score(best, req)) ELSE 35

\* C33 witness: both agents score 1 for the first requirement and the
\* first of the population gets it; the second requirement, for which
\* nobody scores, goes to the other agent.
C33_Witness ==
    /\ mFn = "match_agents"
    /\ mGoal = {"wallet", "upload"}
    /\ Len(mAgents) = 2
    /\ mAgents[1].id = "b" /\ mAgents[1].capabilities = {"wallet_scan"}
    /\ mAgents[2].id = "a" /\ mAgents[2].capabilities = {"wallet_scan"}
    /\ Len(mRuns) = 1
    /\ mRuns[1].workflow[1].agent = mAgents[1]
    /\ mRuns[1].workflow[2].agent = mAgents[2]
    /\ mRuns[1].workflow[2].confidence = 35

\* the strictly increasing maps of n positions into 1..m
Embeddings(n, m) ==
    {f \in [1..n -> 1..m] : \A i, j \in 1..n : i < j => f[i] < f[j]}

\* C34: every assignment matchCapabilities returns pairs a step with an
\* agent of the input population whose capability set contains that step,
\* and the assignments are in the order of the required steps, at most one
\* per step occurrence.
C34_AssignmentsCapableAndInStepOrder ==
    mFn = "matchCapabilities" =>
        \A r \in 1..Len(mRuns) :
            LET found == mRuns[r].matches
            IN /\ \A j \in 1..Len(found) :
                     \E i \in 1..Len(mAgents) :
                        /\ found[j].agent = mAgents[i]
                        /\ found[j].step \in mAgents[i].capabilities
               /\ \E f \in Embeddings(Len(found), Len(mSteps)) :
                     \A j \in 1..Len(found) : found[j].step = mSteps[f[j]]

\* C34 witness: two steps, each with its own agent, the agents in the
\* opposite order in the population: two assignments in step order.
C34_Witness ==
    /\ mFn = "matchCapabilities"
    /\ mSteps = <<"generate_report", "wallet_scan">>
    /\ Len(mAgents) = 2
    /\ mAgents[1].capabilities = {"wallet_scan"}
    /\ mAgents[2].capabilities = {"generate_report"}
    /\ Len(mRuns) = 1
    /\ mRuns[1].matches =
          << [step |-> "generate_report", agent |-> mAgents[2]],
             [step |-> "wallet_scan", agent |-> mAgents[1]] >>

(***************************************************************************)
(* Orchestrator POST /execute: properties                                  *)
(***************************************************************************)
\* the positions of the workflow steps no discovered agent can do
UnmatchedSteps ==
    {k \in 1..Len(WORKFLOW_STEPS) :
        \A i \in 1..Len(oAgents) :
            WORKFLOW_STEPS[k] \notin oAgents[i].capabilities}

\* C20: when a step of the required workflow has no qualifying agent, the
\* request ends at the matching stage with an error (500) that names the
\* unmatched steps, in workflow order; negotiateAgents and executeWorkflow
\* are not invoked, and no /negotiate or /execute request is sent to an
\* agent.
C20_UnmatchedStopsPipeline ==
    ("matchCapabilities" \in oInvoked /\ UnmatchedSteps # {}) =>
        /\ opc = "done"
        /\ oResponse.kind = "json"
        /\ oResponse.status = "ERROR"
        /\ oResponse.code = 500
        /\ Len(oResponse.missing) = Cardinality(UnmatchedSteps)
        /\ \A k \in 1..Len(WORKFLOW_STEPS) :
              k \in UnmatchedSteps <=>
                  \E j \in 1..Len(oResponse.missing) :
                      oResponse.missing[j] = WORKFLOW_STEPS[k]
        /\ \A j \in 1..Len(oResponse.missing) :
              \A m \in 1..(j - 1) : oResponse.missing[m] = "wallet_scan"
        /\ "negotiateAgents" \notin oInvoked
        /\ "executeWorkflow" \notin oInvoked
        /\ \A r \in 1..Len(oRequests) :
              oRequests[r].path \notin {"/negotiate", "/execute"}

\* C20 witness: the two discovered agents were probed and can both scan
\* wallets, nobody can generate the report: the request has failed naming
\* generate_report, with one assignment made.
C20_Witness ==
    /\ opc = "done"
    /\ Len(oAgents) = 2
    /\ Len(oRequests) = 2
    /\ oAgents[1].capabilities = {"wallet_scan"}
    /\ oAgents[2].capabilities = {"wallet_scan"}
    /\ Len(oMatches) = 1
    /\ oMatches[1].agent = oAgents[1]
    /\ oResponse = ErrorResponse(500, <<"generate_report">>)
    /\ oInvoked = {"discoverAgents", "matchCapabilities"}

(***************************************************************************)
(* Worker orchestrator, workflow loop: properties                          *)
(***************************************************************************)
\* the steps of the workflow no probed agent has the capability of
WlUnmatched ==
    {k \in 1..Len(wlWorkflow) :
        \A i \in 1..Len(wlProbed) :
            wlWorkflow[k].capability \notin wlProbed[i].capabilities}

PositiveSignal(answer) ==
    /\ answer.fetch = "settles"
    /\ answer.code = 200
    /\ answer.body.kind = "obj"
    /\ \/ answer.body.accept = "true"
       \/ answer.body.status \in {"ACCEPT", "OK", "accepted"}

\* the answer is one of the failures: a network error or timeout, a
\* non-success status, a response without any accept signal
NoAcceptSignal(answer) ==
    \/ answer.fetch = "rejects"
    \/ answer.fetch = "settles" /\ answer.code # 200
    \/ /\ answer.fetch = "settles"
       /\ answer.code = 200
       /\ answer.body.accept = "absent"
       /\ answer.body.status \notin {"ACCEPT", "OK", "accepted"}

\* C27: negotiateAgent is fail-closed: it returns true only for an answer
\* with a positive signal, and returns false on a network error, a timeout,
\* a non-success status or a response without any accept signal.
C27_NegotiateAgentFailClosed ==
    negotiated.answer.fetch # "pending" =>
        /\ negotiated.result => PositiveSignal(negotiated.answer)
        /\ NoAcceptSignal(negotiated.answer) => ~negotiated.result

(***************************************************************************)
(* The negotiators: a call of negotiateAgents or a call of negotiate_terms *)
(***************************************************************************)
InitNegotiators == InitNeg \/ InitTerms

NextNegotiators == NextNeg \/ NextTerms

SpecNegotiators == InitNegotiators /\ [][NextNegotiators]_vars

(***************************************************************************)
(* negotiateAgents: properties                                             *)
(***************************************************************************)
\* the result of the agent the loop is at has been pushed
NegPushed == npc = "next agent" /\ nIdx >= 1

\* the answer is a rejection: a response whose body has a rejection status
\* token, or neither an affirmative token nor an affirmative flag
NegRejection(answer) ==
    /\ answer.fetch = "settles"
    /\ answer.body.status \notin {"ACCEPT", "OK"}
    /\ answer.body.accepted # "true"
    /\ answer.body.accept # "true"

\* C23: an agent whose /negotiate answered every attempt with a rejection
\* is recorded with accepted = false.
C23_RejectionRecordedNotAccepted ==
    (NegPushed /\ \A k \in 1..Len(nAnswers) : NegRejection(nAnswers[k]))
        => ~nOut[nIdx].accepted

\* the acceptance rule as stated: an accept status token, a flag
\* accept: true in the body, or a 2xx status code
StatedAcceptance(answer) ==
    /\ answer.fetch = "settles"
    /\ \/ answer.body.status \in {"ACCEPT", "OK"}
       \/ answer.body.accept = "true"
       \/ answer.code \in 200..299

\* the acceptance rule of the code: an accept status token, a flag
\* accepted: true in the body, or the status code 200
CodedAcceptance(answer) ==
    /\ answer.fetch = "settles"
    /\ \/ answer.body.status \in {"ACCEPT", "OK"}
       \/ answer.body.accepted = "true"
       \/ answer.code = 200

\* C24 as stated: the last attempt is accepted exactly when its response
\* has an accept status token, {accept: true} or a 2xx status code.
C24_AcceptTokenFlagOr2xx ==
    nAnswers # <<>> => (nAccepted <=> StatedAcceptance(nAnswers[Len(nAnswers)]))

\* C24: the last attempt is accepted exactly when its response has the
\* status token ACCEPT or OK, the flag accepted: true, or the status code
\* 200; every other response and every transport error is not accepted.
C24_AcceptTokenAcceptedFlagOr200 ==
    nAnswers # <<>> => (nAccepted <=> CodedAcceptance(nAnswers[Len(nAnswers)]))

\* an attempt answered 400 {accepted: true} was accepted, and one answered
\* 201 {} earlier was not
C24_Witness ==
    /\ Len(nAnswers) = 2
    /\ nAnswers[1].code = 201
    /\ nAnswers[2].code = 400
    /\ nAnswers[2].body.accepted = "true"
    /\ nAccepted

\* the /negotiate requests sent so far to the agent the loop is at
NegSent == Len(nAnswers) + (IF npc = "fetch" THEN 1 ELSE 0)

\* no attempt of the agent the loop is at was accepted
NegNoneAccepted == \A k \in 1..Len(nAnswers) : ~CodedAcceptance(nAnswers[k])

\* lastError as an attempt with this answer leaves it
NegErrorOf(answer) ==
    IF answer.fetch = "rejects" THEN "fetch failed"
    ELSE "unexpected-negotiation-response"

\* C26: an agent is sent at most retryAttempts + 1 requests; none follows
\* an accepted attempt; an attempt that was not accepted, a rejection or a
\* transport error, is followed by another while the budget lasts; and when
\* no attempt was accepted the result has accepted = false and the error of
\* the last attempt.
C26_RetryBudgetAndLastError ==
    nIdx >= 1 =>
        /\ NegSent <= nRetryAttempts + 1
        /\ \A k \in 1..Len(nAnswers) :
               CodedAcceptance(nAnswers[k]) => NegSent = k
        /\ (NegPushed /\ NegNoneAccepted) =>
               /\ Len(nAnswers) = nRetryAttempts + 1
               /\ ~nOut[nIdx].accepted
               /\ nOut[nIdx].error = NegErrorOf(nAnswers[Len(nAnswers)])

\* an agent was retried after a transport error and after a rejection, and
\* its result carries the error of the rejection that came last
C26_Witness ==
    /\ NegPushed
    /\ Len(nAnswers) >= 2
    /\ nAnswers[1].fetch = "rejects"
    /\ nAnswers[Len(nAnswers)].fetch = "settles"
    /\ NegNoneAccepted
    /\ nOut[nIdx].error = "unexpected-negotiation-response"

\* negotiateAgents has an outcome for every agent the loop is through with,
\* in input order, has contacted every agent up to the one it is at, and
\* returns when it is through with all
NegNoShortCircuit ==
    /\ Len(nOut) = (IF npc \in {"fetch", "backoff"} THEN nIdx - 1 ELSE nIdx)
    /\ \A i \in 1..Len(nOut) : nOut[i].agentId = nAgents[i].id
    /\ nContacted = 1..nIdx
    /\ npc = "done" => nIdx = Len(nAgents)

\* the same of negotiate_terms, whose outcomes are the responses
TermsNoShortCircuit ==
    /\ Len(tResponses) = (IF tpc \in {"post", "backoff"} THEN tIdx - 1 ELSE tIdx)
    /\ \A i \in 1..Len(tResponses) :
           tResponses[i].agentId = tWorkflow[i].agent.id
    /\ tContacted = 1..tIdx
    /\ tpc = "done" => /\ tIdx = Len(tWorkflow)
                       /\ tResult.responses = tResponses

\* C25: the negotiators do not short-circuit: negotiateAgents and
\* negotiate_terms contact every agent of their input, also after an agent
\* that rejected or failed, and return one outcome per input agent, in
\* input order.
C25_NoShortCircuit == NegNoShortCircuit /\ TermsNoShortCircuit

\* negotiateAgents has returned two outcomes, the first of an agent that
\* did not accept
C25_Witness ==
    /\ npc = "done"
    /\ Len(nAgents) = 2
    /\ Len(nOut) = 2
    /\ ~nOut[1].accepted
    /\ nContacted = {1, 2}

(***************************************************************************)
(* Orchestrator POST /execute, negotiation and execution: properties       *)
(***************************************************************************)
\* the results of negotiateAgents that are not accepted
NotAccepted ==
    {k \in 1..Len(negotiateResults) : ~negotiateResults[k].accepted}

\* C22: executeWorkflow is invoked only after negotiateAgents has returned
\* accepted for every matched agent; when an agent is not accepted the
\* response is a failure that names the refusing agent ids, and no
\* /execute request is sent to any agent.
C22_ExecuteOnlyAfterAllAccepted ==
    /\ "executeWorkflow" \in oInvoked =>
           /\ Len(negotiateResults) = Len(oMatches)
           /\ \A k \in 1..Len(oMatches) :
                  /\ negotiateResults[k].agentId = oMatches[k].agent.id
                  /\ negotiateResults[k].accepted
    /\ NotAccepted # {} =>
           /\ oResponse.kind = "json"
           /\ oResponse.status = "ERROR"
           /\ oResponse.code \notin 200..299
           /\ Len(oResponse.refused) = Cardinality(NotAccepted)
           /\ \A k \in NotAccepted :
                  \E j \in 1..Len(oResponse.refused) :
                      oResponse.refused[j] = negotiateResults[k].agentId
           /\ "executeWorkflow" \notin oInvoked
           /\ xpc = "idle"
           /\ calls = <<>>
           /\ \A r \in 1..Len(oRequests) : oRequests[r].path # "/execute"

\* the agent of generate_report refused after the agent of wallet_scan had
\* accepted, and the handler answered 502 naming it
C22_Witness ==
    /\ opc = "done"
    /\ Len(negotiateResults) = 2
    /\ negotiateResults[1].accepted
    /\ ~negotiateResults[2].accepted
    /\ oResponse.code = 502
    /\ oResponse.refused = <<negotiateResults[2].agentId>>

\* the handler has answered with the failure of a stage
UnmatchedFailure ==
    /\ opc = "done"
    /\ "matchCapabilities" \in oInvoked
    /\ "negotiateAgents" \notin oInvoked

RefusedFailure == opc = "done" /\ NotAccepted # {}

ExecutionFailure ==
    opc = "done" /\ "executeWorkflow" \in oInvoked /\ ~xresult.success

\* the failure response has a non-2xx code, status ERROR and a message
ErrorBody ==
    /\ oResponse.kind = "json"
    /\ oResponse.code \notin 200..299
    /\ oResponse.status = "ERROR"
    /\ "message" \in oResponse.fields

C29_WalletAndReportPerStep ==
    (opc = "done" /\ oResponse.status = "DONE") =>
        /\ Len(logs) = 2
        /\ oResponse.wallet = logs[1].output
        /\ oResponse.report = logs[2].output

\* the request body the report agent reads: { walletData: w }
WalletDataBody(w) ==
    [kind |-> "obj", status |-> "absent", output |-> Nullish, walletData |-> w]

\* C30: in the orchestrator's sequential run, the request body sent to the
\* generate_report agent's /execute is {walletData: W}, where W is the
\* output returned by the wallet_scan step.
C30_ReportBodyIsWalletData ==
    "executeWorkflow" \in oInvoked =>
        \A k \in 1..Len(calls[2]) :
            calls[2][k] = WalletDataBody(logs[1].output)

(***************************************************************************)
(* onMessage: properties                                                   *)
(***************************************************************************)
\* C31: in onMessage, when negotiate_terms returns a status other than OK,
\* execute_workflow is not invoked and no /execute request is sent.
C31_NoExecuteAfterFailedNegotiation ==
    (fpc # "idle" /\ tpc = "done" /\ tResult.status # "OK") =>
        /\ "execute_workflow" \notin fInvoked
        /\ \A i \in DOMAIN wcalls : wcalls[i] = 0

(***************************************************************************)
(* Backoff between attempts: properties                                    *)
(***************************************************************************)
\* executeWorkflow: a request after the first of a step is sent only after
\* a backoff delay has elapsed since the request before it
ExecBackoffBetweenAttempts ==
    [][(xpc = "attempt" /\ xpc' = "await" /\ attempt > 0) => waited]_vars

\* negotiateAgents: the next attempt of an agent starts out of the backoff
NegBackoffBetweenAttempts ==
    [][(npc' = "fetch" /\ nAttempt' = nAttempt + 1) => npc = "backoff"]_vars

\* probeCapabilities: no query is followed at once by the next query
ProbeBackoffBetweenAttempts ==
    [][\A i \in DOMAIN probe \cap DOMAIN probe' :
          ~(/\ probe[i].pc = "fetch"
            /\ probe'[i].pc = "fetch"
            /\ probe'[i].attempt = probe[i].attempt + 1)]_vars

\* C36: between any two consecutive attempts of the same call a backoff
\* delay elapses, whatever made the earlier attempt fail: for the /execute
\* attempts of executeWorkflow, the /negotiate attempts of negotiateAgents
\* and the capability queries of probeCapabilities.
C36_BackoffBetweenAttempts ==
    /\ ExecBackoffBetweenAttempts
    /\ NegBackoffBetweenAttempts
    /\ ProbeBackoffBetweenAttempts

(***************************************************************************)
(* Worker orchestrator, executeAgentWithRetries: properties                *)
(***************************************************************************)
\* the /execute requests sent for step k
ExecuteRequests(k) ==
    {r \in 1..Len(wlRequests) :
        wlRequests[r].path = "/execute" /\ wlRequests[r].step = k}

\* the answer executeAgentWithRetries returned on is a transport error or
\* a 5xx status; a non-success status below 500
Retryable(answer) ==
    answer.fetch = "rejects" \/ (answer.fetch = "settles" /\ answer.code >= 500)

ClientError(answer) ==
    answer.fetch = "settles" /\ answer.code \notin 200..299 /\ answer.code < 500

\* C37: executeAgentWithRetries returns after at most 3 requests: a
\* transport error or timeout and a 5xx status are retried while attempts
\* remain, a non-success status below 500 returns FAILED after that
\* attempt, and exhausting the budget returns FAILED.
C37_AtMostThreeRequestsThenFailed ==
    /\ \A k \in 1..Len(wlWorkflow) :
          Cardinality(ExecuteRequests(k)) <= maxAttempts
    /\ executed # NotExecuted =>
          /\ executed.attempt = Cardinality(ExecuteRequests(executed.step))
          /\ Retryable(executed.answer) =>
                /\ executed.attempt = maxAttempts
                /\ executed.result = Obj("FAILED", Nullish)
          /\ ClientError(executed.answer) =>
                executed.result = Obj("FAILED", Nullish)

\* C37 witness: the third /execute request of the first step was rejected
\* too, executeAgentWithRetries returned FAILED and the handler answered.
C37_Witness ==
    /\ executed.step = 1
    /\ executed.answer.fetch = "rejects"
    /\ executed.attempt = 3
    /\ Cardinality(ExecuteRequests(1)) = 3
    /\ wlResponse.status = "FAILED"

\* the step executeAgentWithRetries last returned for was treated as
\* completed: its output was merged and the loop went on
StepCompleted == executed # NotExecuted /\ wlStep > executed.step

\* C38: a step is treated as completed only if the agent's own response
\* body carried the status DONE; a success-status response whose body is
\* not parsable JSON does not count as completed.
C38_CompletedOnlyOnAgentDone ==
    StepCompleted =>
        /\ executed.answer.fetch = "settles"
        /\ executed.answer.code \in 200..299
        /\ executed.answer.body.kind = "obj"
        /\ executed.answer.body.status = "DONE"

(***************************************************************************)
(* Records of the last attempt: properties                                 *)
(***************************************************************************)
\* executeWorkflow: an entry whose error is a transport error of the last
\* attempt has no status code and no output
ExecRecordOfLastAttempt ==
    \A k \in 1..Len(logs) :
        (~logs[k].success /\ logs[k].error \in FetchErrors) =>
            /\ logs[k].statusCode = 0
            /\ logs[k].output = Undefined

\* negotiateAgents: likewise for the status code and the response body
NegRecordOfLastAttempt ==
    \A k \in 1..Len(nOut) :
        (~nOut[k].accepted /\ nOut[k].error = "fetch failed") =>
            /\ nOut[k].statusCode = 0
            /\ nOut[k].responseBody = NoRespBody

\* C39: in a log entry of executeWorkflow and in an outcome of
\* negotiateAgents the status code, the body or output and the error all
\* stem from the last attempt: a later attempt that fails with a transport
\* error leaves no status code or body of an earlier attempt in the record.
C39_RecordStemsFromLastAttempt ==
    ExecRecordOfLastAttempt /\ NegRecordOfLastAttempt

(***************************************************************************)
(* Input collections: properties                                           *)
(***************************************************************************)
\* C40: matching and agent selection leave their input collections
\* unchanged: matchCapabilities and match_agents do not reorder, add,
\* remove or modify the agents of the population they are given, and
\* chooseAgent does not reorder the candidate list it receives from the
\* capability map.
C40_InputCollectionsUnchanged ==
    [][mAgents' = mAgents /\ capabilityMap' = capabilityMap]_vars

====
